---- MODULE Spec2Model ----
(***************************************************************************)
(* A model of the session protocol layer of mcp-debug: the Session actor   *)
(* (debugger/session.go: NewSession, readLoop, Receive), the typed         *)
(* operations that Ask it, and the debugger factory actor (debugger.go)    *)
(* that creates sessions and registers them with the actor system.         *)
(***************************************************************************)
EXTENDS Integers, Sequences, FiniteSets, TLC

\* ------------------------------------------------------------------ bounds
\* Requests issued on one session.
MaxReqs == 2
\* Unsolicited messages (events, other messages) one backend emits.
MaxEvents == 1
\* Commands sent to the debugger factory.
MaxCmds == 3

\* Calls of Session.Stop made in one run.
MaxStops == 2

\* The largest RetryConfig.MaxAttempts tried.
MaxAttemptsBound == 3
\* The largest InitialDelay and MaxDelay tried, in units of time.
MaxDelayBound == 3

\* The longest list of breakpoints passed to one call.
MaxBreakpoints == 2

\* The most scopes a stack frame has.
MaxScopes == 1

\* Capacity of the responses, events and errors channels.
ChanCap == 1

\* The callers that hold a reference to an actor and Ask it concurrently.
Callers == {"c1", "c2"}

\* Session objects, named by the number of the command that created them.
SessionRefs == 1..MaxCmds

\* The kinds of dap.EventMessage Receive tells apart, and one of the others.
EventKinds == {"output", "stopped", "terminated", "exited", "initialized"}

\* ------------------------------------------------------------------- state
VARIABLES
    started,      \* the Session objects NewSession has returned
    mailbox,      \* mailbox[s]: callers whose DAPRequest awaits the actor
    call,         \* call[s][c]: caller c's Ask on session s
    reqSeq,       \* reqSeq[s]: number of requests issued on s
    conn,         \* conn[s]: requests written to the connection, in order
    writes,       \* writes[s][r]: times request r was handed to the transport
    answered,     \* answered[s]: requests the backend has answered
    unsolicited,  \* unsolicited[s]: events and other messages emitted
    stream,       \* stream[s]: "open", or how the backend's output ended
    wire,         \* wire[s]: messages sent by the backend, not yet decoded
    rl,           \* rl[s]: position of the readLoop goroutine
    responses,    \* the responses channel
    events,       \* the events channel
    errors,       \* the errors channel
    returned,     \* returned[s]: the results Receive has returned, in order
    nextSessionID,\* debugger.nextSessionID
    receptionist, \* service key -> the actor references registered under it
    fmailbox,     \* callers whose DebuggerCmd awaits the debugger actor
    fcall,        \* fcall[c]: caller c's Ask on the debugger actor
    cmdSeq,       \* number of commands sent to the debugger actor
    fresp,        \* the results debugger.Receive has returned, in order
    quit,         \* quit[s]: the quit channel of s, "open" or "closed"
    connCloses,   \* connCloses[s]: times s.conn.Close() was called
    cleanups,     \* cleanups[s]: times the cleanup callback of s was invoked
    stopCall,     \* stopCall[s][c]: caller c's position in Session.Stop on s
    stops,        \* number of calls of Session.Stop made
    panicked,     \* the process died of a run-time panic
    serviceStopped, \* the actor system has been shut down
    config,       \* RetryWithBackoff: the RetryConfig
    retryCtx,     \* RetryWithBackoff: ctx, "background", "live" or "done"
    retryPc,      \* RetryWithBackoff: where the call stands
    attempt,      \* RetryWithBackoff: attempt
    delay,        \* RetryWithBackoff: delay
    lastErr,      \* RetryWithBackoff: lastErr, 0 for nil
    invocations,  \* the invocations of operation: TRUE where it succeeded
    sleeps,       \* the delays handed to time.After, in order
    retryResult,  \* what RetryWithBackoff returned
    launchPc,     \* launchDelveExternal: where the call stands
    launchAttempt,\* launchDelveExternal: attempt of its retry loop
    procs,        \* procs[k]: the dlv process started by attempt k
    launchResult, \* what launchDelveExternal returned
    asked,        \* the requests handed to session.Ask, the last two of them
    apiCall,      \* the typed operation that returned last
    ops,          \* ops[s]: the execution operations called on s, in order
    sessions,     \* MCPDebugServer.sessions: session_id -> session reference
    tool,         \* tool[c]: caller c's create_session handler
    toolResults   \* what the create_session handlers have returned

sessVars == <<started, mailbox, call, reqSeq, conn, writes, answered,
              unsolicited, stream, wire, rl, responses, events, errors,
              returned>>
factVars == <<nextSessionID, receptionist, fmailbox, fcall, cmdSeq, fresp>>
lifeVars == <<quit, connCloses, cleanups, stopCall, stops, panicked,
              serviceStopped>>
\* The variables outside the session protocol and the factory.
retryVars == <<config, retryCtx, retryPc, attempt, delay, lastErr,
               invocations, sleeps, retryResult>>
launchVars == <<launchPc, launchAttempt, procs, launchResult>>
apiVars == <<asked, apiCall, ops>>
mcpVars == <<sessions, tool, toolResults>>
pureVars == <<retryVars, launchVars, apiVars>>
progVars == <<sessVars, factVars, lifeVars, mcpVars>>
restVars == <<lifeVars, mcpVars, pureVars>>
vars == <<sessVars, factVars, restVars>>

\* ---------------------------------------------------------------- messages
\* What dap.ReadProtocolMessage yields: a dap.ResponseMessage (to request
\* req), a dap.EventMessage, a message that is neither, a decode error
\* ("garbage") or io.EOF ("eof"). The concrete type of an event plays no part
\* until Receive switches on it, so its kind is drawn there.
Msg(type, req, kind) == [type |-> type, req |-> req, kind |-> kind]
NoMsg == Msg("none", 0, "-")
ResponseMsg(r) == Msg("response", r, "-")
EventMsg(k) == Msg("event", 0, k)
AnyEvent == EventMsg("-")
OtherMsg == Msg("other", 0, "-")
GarbageMsg == Msg("garbage", 0, "-")
EOFMsg == Msg("eof", 0, "-")

\* The error readLoop wraps around a decode failure.
ReadError == Msg("error reading DAP message", 0, "-")

\* A caller's Ask that is not under way. ctx is the context the caller gave
\* to Ask and to Await; ctx0 is the context Receive was called with, as it
\* stood at that moment.
IdleCall == [pc |-> "idle", req |-> 0, ctx |-> "background",
             ctx0 |-> "live", typed |-> FALSE, sent |-> FALSE,
             absorbed |-> 0]

\* The calls on session s the actor has handed to Receive and that have not
\* returned.
InReceive(s) == {c \in Callers : call[s][c].pc \in {"write", "wait"}}

\* The readLoop goroutine as NewSession starts it.
ReadLoopStart == [pc |-> "read", msg |-> NoMsg, during |-> 0]

\* ------------------------------------------------------------- NewSession
\* The fields of a Session as NewSession builds them, for every session
\* object that may come to exist.
SessionInit ==
    /\ mailbox = [s \in SessionRefs |-> <<>>]
    /\ call = [s \in SessionRefs |-> [c \in Callers |-> IdleCall]]
    /\ reqSeq = [s \in SessionRefs |-> 0]
    /\ conn = [s \in SessionRefs |-> <<>>]
    /\ writes = [s \in SessionRefs |-> [r \in 1..MaxReqs |-> 0]]
    /\ answered = [s \in SessionRefs |-> 0]
    /\ unsolicited = [s \in SessionRefs |-> 0]
    /\ stream = [s \in SessionRefs |-> "open"]
    /\ wire = [s \in SessionRefs |-> <<>>]
    /\ rl = [s \in SessionRefs |-> ReadLoopStart]
    /\ responses = [s \in SessionRefs |-> <<>>]
    /\ events = [s \in SessionRefs |-> <<>>]
    /\ errors = [s \in SessionRefs |-> <<>>]
    /\ returned = [s \in SessionRefs |-> <<>>]

\* A session as NewSession leaves it: quit open, the connection and the
\* backend process alive, nobody in Stop.
IdleStop == "idle"
LifeInit ==
    /\ quit = [s \in SessionRefs |-> "open"]
    /\ connCloses = [s \in SessionRefs |-> 0]
    /\ cleanups = [s \in SessionRefs |-> 0]
    /\ stopCall = [s \in SessionRefs |-> [c \in Callers |-> IdleStop]]
    /\ stops = 0
    /\ panicked = FALSE
    /\ serviceStopped = FALSE

\* RetryWithBackoff is not running.
NoResult == [kind |-> "none", attempts |-> 0, wraps |-> 0]
RetryIdle ==
    /\ config = [MaxAttempts |-> 0, InitialDelay |-> 0, MaxDelay |-> 0,
                 Multiplier |-> <<1, 1>>]
    /\ retryCtx = "background"
    /\ retryPc = "idle"
    /\ attempt = 0
    /\ delay = 0
    /\ lastErr = 0
    /\ invocations = <<>>
    /\ sleeps = <<>>
    /\ retryResult = NoResult

\* DefaultRetryConfig.MaxAttempts, the attempts launchDelveExternal makes.
DefaultMaxAttempts == 5

\* launchDelveExternal is not running and has started no process.
NoLaunchResult == [ok |-> FALSE, err |-> "none"]
LaunchIdle ==
    /\ launchPc = "idle"
    /\ launchAttempt = 0
    /\ procs = [k \in 1..DefaultMaxAttempts |-> "none"]
    /\ launchResult = NoLaunchResult

\* No typed operation has been called.
NoCall == [op |-> "none"]
ApiIdle ==
    /\ asked = <<>>
    /\ apiCall = NoCall
    /\ ops = [s \in SessionRefs |-> <<>>]

\* NewMCPDebugServer: an empty sessions map, no tool handler running.
IdleTool == [pc |-> "idle", id |-> "-", n |-> 0]
McpIdle ==
    /\ sessions = <<>>
    /\ tool = [c \in Callers |-> IdleTool]
    /\ toolResults = <<>>

\* Everything outside the session protocol and the factory, at rest.
RestInit == LifeInit /\ McpIdle /\ RetryIdle /\ LaunchIdle /\ ApiIdle

\* ------------------------------------------------------- typed operations
\* The context a typed operation (Continue, Next, GetThreads, ...) passes to
\* session.Ask and to future.Await: context.Background().
TypedOperationCtx == "background"

\* The context of the actors, which an actor hands to its behavior as
\* actorCtx: the one of the actor system, done once the system is shut down.
ActorCtx == IF serviceStopped THEN "done" ELSE "live"

\* Caller c sends a DAPRequest to session s with context ctx: the message
\* joins the actor's mailbox. An actor whose context is done accepts no
\* message.
Send(s, c, typed, ctx) ==
    /\ s \in started
    /\ ActorCtx = "live"
    /\ call[s][c].pc = "idle"
    /\ reqSeq[s] < MaxReqs
    /\ reqSeq' = [reqSeq EXCEPT ![s] = @ + 1]
    /\ call' = [call EXCEPT ![s][c] =
                  [pc |-> "queued", req |-> reqSeq[s] + 1, ctx |-> ctx,
                   ctx0 |-> "live", typed |-> typed, sent |-> FALSE,
                   absorbed |-> 0]]
    /\ mailbox' = [mailbox EXCEPT ![s] = Append(@, c)]
    /\ UNCHANGED <<started, conn, writes, answered, unsolicited, stream, wire,
                   rl, responses, events, errors, returned, factVars,
                   lifeVars, retryVars, launchVars>>

\* A caller outside the tool handlers of the MCP server sends the request.
Enqueue(s, c, typed, ctx) == Send(s, c, typed, ctx) /\ UNCHANGED mcpVars

\* session.Ask(ctx, dapReq) of a request whose content plays no part.
Ask(s, c, typed, ctx) == Enqueue(s, c, typed, ctx) /\ UNCHANGED apiVars

\* Continue, Next, StepIn, StepOut, Pause, GetThreads, ...: build the
\* request and Ask the session.
TypedOperation(s, c) == Ask(s, c, TRUE, TypedOperationCtx)

\* A request sent with a context that can be cancelled or can expire.
AskWithContext(s, c) == Ask(s, c, FALSE, "live")

\* The context the caller gave to Ask and Await is cancelled or its deadline
\* passes: future.Await(ctx) returns ctx.Err() to the caller. The request
\* stays where it is, in the mailbox or in Receive, which does not see this
\* context.
CancelContext(s, c) ==
    /\ call[s][c].pc \in {"queued", "write", "wait"}
    /\ call[s][c].ctx = "live"
    /\ call' = [call EXCEPT ![s][c].ctx = "done"]
    /\ UNCHANGED <<started, mailbox, reqSeq, conn, writes, answered,
                   unsolicited, stream, wire, rl, responses, events, errors,
                   returned, factVars, restVars>>

\* system.Shutdown(): the context of the actor system, and with it the
\* context of every actor, is cancelled.
ActorSystem_Shutdown ==
    /\ ~serviceStopped
    /\ serviceStopped' = TRUE
    /\ UNCHANGED <<quit, connCloses, cleanups, stopCall, stops, panicked,
                   sessVars, factVars, mcpVars, pureVars>>

\* ------------------------------------------------------------ the actor
\* An actor processes its messages sequentially: it takes the next message
\* from its mailbox only when its behavior is not running.
ActorIdle_Concurrent(s) == TRUE
ActorIdle_OneActor(s) == \A t \in SessionRefs : InReceive(t) = {}
ActorIdle(s) == InReceive(s) = {}

\* The session actor takes the next DAPRequest and calls Session.Receive with
\* its own context, actorCtx; ctx0 keeps what that context was at that
\* moment. The actor's loop selects between its mailbox and its context, so
\* with the context done it may still take a message that is waiting.
Dispatch(s) ==
    /\ mailbox[s] # <<>>
    /\ ActorIdle(s)
    /\ mailbox' = [mailbox EXCEPT ![s] = Tail(@)]
    /\ call' = [call EXCEPT ![s][Head(mailbox[s])].pc = "write",
                            ![s][Head(mailbox[s])].ctx0 = ActorCtx]
    /\ UNCHANGED <<started, reqSeq, conn, writes, answered, unsolicited,
                   stream, wire, rl, responses, events, errors, returned,
                   factVars, restVars>>

\* ---------------------------------------------------------- Session.Receive
\* Receive returns: the result is recorded and the caller's Ask completes.
Return(s, c, kind, msg) ==
    /\ returned' = [returned EXCEPT ![s] =
                      Append(@, [req |-> call[s][c].req, kind |-> kind,
                                 msg |-> msg, ctx0 |-> call[s][c].ctx0,
                                 typed |-> call[s][c].typed,
                                 sent |-> call[s][c].sent,
                                 absorbed |-> call[s][c].absorbed])]
    /\ call' = [call EXCEPT ![s][c] = IdleCall]

\* dap.WriteProtocolMessage failed: Receive returns the write error.
OnWriteError_FallThrough(s, c) ==
    /\ call' = [call EXCEPT ![s][c].pc = "wait"]
    /\ UNCHANGED returned
OnWriteError(s, c) == Return(s, c, "writeErr", NoMsg)

\* First, send the request to the DAP server. The write succeeds or fails
\* (ok), as the connection decides.
Receive_Write(s, c, ok) ==
    /\ call[s][c].pc = "write"
    /\ writes' = [writes EXCEPT ![s][call[s][c].req] = @ + 1]
    /\ IF ok
         THEN /\ conn' = [conn EXCEPT ![s] = Append(@, call[s][c].req)]
              /\ call' = [call EXCEPT ![s][c].pc = "wait", ![s][c].sent = TRUE]
              /\ UNCHANGED returned
         ELSE /\ OnWriteError(s, c)
              /\ UNCHANGED conn
    /\ UNCHANGED <<started, mailbox, reqSeq, answered, unsolicited, stream,
                   wire, rl, responses, events, errors, factVars, restVars>>

\* Receive takes the response that is on the channel, whatever request it
\* answers: it does not compare it with the request it wrote.
Accepts_OwnOnly(s, c, m) == m.req = call[s][c].req
Accepts(s, c, m) == TRUE

\* case resp := <-s.responses: a response is the result of the Call.
RecvResponse(s, c) ==
    /\ call[s][c].pc = "wait"
    /\ responses[s] # <<>>
    /\ Accepts(s, c, Head(responses[s]))
    /\ responses' = [responses EXCEPT ![s] = Tail(@)]
    /\ Return(s, c, "ok", Head(responses[s]))
    /\ UNCHANGED <<started, mailbox, reqSeq, conn, writes, answered,
                   unsolicited, stream, wire, rl, events, errors, factVars, restVars>>

\* What Receive does with an event it took from the events channel: log it
\* and continue the loop, whatever its kind.
OnEvent_ReturnsEvent(s, c, ev) == Return(s, c, "ok", ev)
OnEvent_TerminatedEndsCall(s, c, ev) ==
    IF ev.kind \in {"terminated", "exited"}
      THEN Return(s, c, "err", ev)
      ELSE /\ call' = [call EXCEPT ![s][c].absorbed = @ + 1]
           /\ UNCHANGED returned
OnEvent(s, c, ev) ==
    /\ call' = [call EXCEPT ![s][c].absorbed = @ + 1]
    /\ UNCHANGED returned

\* case event := <-s.events.
RecvEvent(s, c) ==
    /\ call[s][c].pc = "wait"
    /\ events[s] # <<>>
    /\ events' = [events EXCEPT ![s] = Tail(@)]
    /\ Head(events[s]).type = "event" =>
          \E k \in EventKinds : OnEvent(s, c, EventMsg(k))
    /\ Head(events[s]).type # "event" => OnEvent(s, c, Head(events[s]))
    /\ UNCHANGED <<started, mailbox, reqSeq, conn, writes, answered,
                   unsolicited, stream, wire, rl, responses, errors, factVars, restVars>>

\* case err := <-s.errors: the read loop's error is the result of the Call.
RecvError(s, c) ==
    /\ call[s][c].pc = "wait"
    /\ errors[s] # <<>>
    /\ errors' = [errors EXCEPT ![s] = Tail(@)]
    /\ Return(s, c, "err", Head(errors[s]))
    /\ UNCHANGED <<started, mailbox, reqSeq, conn, writes, answered,
                   unsolicited, stream, wire, rl, responses, events, factVars, restVars>>

\* case <-actorCtx.Done(): the actor is shutting down, and the context's
\* error is the result of the Call.
CtxDone_BeforeWrite(s, c) ==
    /\ call[s][c].pc \in {"write", "wait"}
    /\ ActorCtx = "done"
    /\ Return(s, c, "cancel", NoMsg)
    /\ UNCHANGED <<started, mailbox, reqSeq, conn, writes, answered,
                   unsolicited, stream, wire, rl, responses, events, errors,
                   factVars, restVars>>
CtxDone(s, c) ==
    /\ call[s][c].pc = "wait"
    /\ ActorCtx = "done"
    /\ Return(s, c, "cancel", NoMsg)
    /\ UNCHANGED <<started, mailbox, reqSeq, conn, writes, answered,
                   unsolicited, stream, wire, rl, responses, events, errors,
                   factVars, restVars>>

\* One pass of the select in Receive's loop: Go picks any case that is ready.
Receive_Select(s, c) ==
    \/ RecvResponse(s, c)
    \/ RecvEvent(s, c)
    \/ RecvError(s, c)
    \/ CtxDone(s, c)

\* ---------------------------------------------------------------- readLoop
\* Where readLoop goes with what dap.ReadProtocolMessage returned.
Classify_EventsAsResponses(m) ==
    CASE m.type = "eof" -> "done"
      [] m.type = "garbage" -> "pushErr"
      [] m.type = "response" -> "pushResp"
      [] m.type = "event" -> "pushResp"
      [] OTHER -> "read"
\* (A dap.ErrorResponse is a dap.ResponseMessage.)
Classify_ErrorResponseAsError(m) ==
    CASE m.type = "eof" -> "done"
      [] m.type = "garbage" -> "pushErr"
      [] m.type = "response" /\ m.kind = "ErrorResponse" -> "pushErr"
      [] m.type = "response" -> "pushResp"
      [] m.type = "event" -> "pushEvent"
      [] OTHER -> "read"
Classify_OtherAsEvent(m) ==
    CASE m.type = "eof" -> "done"
      [] m.type = "garbage" -> "pushErr"
      [] m.type = "response" -> "pushResp"
      [] OTHER -> "pushEvent"
Classify_EOFAsError(m) ==
    CASE m.type = "eof" -> "pushErr"
      [] m.type = "garbage" -> "pushErr"
      [] m.type = "response" -> "pushResp"
      [] m.type = "event" -> "pushEvent"
      [] OTHER -> "read"
Classify(m) ==
    CASE m.type = "eof" -> "done"
      [] m.type = "garbage" -> "pushErr"
      [] m.type = "response" -> "pushResp"
      [] m.type = "event" -> "pushEvent"
      [] OTHER -> "read"

\* The request of the Call that is waiting for its response, 0 if none.
InFlightReq(s) ==
    LET w == {c \in Callers : call[s][c].pc = "wait"}
    IN IF w = {} THEN 0 ELSE call[s][CHOOSE c \in w : TRUE].req

\* After sending the error on the errors channel readLoop returns.
AfterPushErr_KeepsReading == "read"
AfterPushErr == "done"

\* Where readLoop stands once the send it is at (pc) has gone through.
AfterForward(pc) == IF pc = "pushErr" THEN AfterPushErr ELSE "read"

\* The channels after readLoop has sent m as its position pc says.
Forwarded(s, pc, m) ==
    [resp |-> IF pc = "pushResp" THEN Append(responses[s], m) ELSE responses[s],
     ev |-> IF pc = "pushEvent" THEN Append(events[s], m) ELSE events[s],
     err |-> IF pc = "pushErr" THEN Append(errors[s], ReadError) ELSE errors[s]]

\* Whether the send at position pc can go through: its channel has room.
CanForward_Unbounded(s, pc) == pc \in {"pushResp", "pushEvent", "pushErr"}
CanForward(s, pc) ==
    CASE pc = "pushResp" -> Len(responses[s]) < ChanCap
      [] pc = "pushEvent" -> Len(events[s]) < ChanCap
      [] pc = "pushErr" -> Len(errors[s]) < ChanCap
      [] OTHER -> FALSE

\* One iteration of readLoop: decode the next message of the connection and
\* send it on the channel of its kind. With the channel full the iteration
\* blocks at the send, holding the message. rl[s].during keeps the request
\* that was in flight when a decode failed.
readLoop_Read(s) ==
    /\ s \in started
    /\ rl[s].pc = "read"
    /\ wire[s] # <<>>
    /\ wire' = [wire EXCEPT ![s] = Tail(@)]
    /\ LET m == Head(wire[s])
           pc == Classify(m)
           during == IF m.type = "garbage" THEN InFlightReq(s)
                     ELSE rl[s].during
       IN IF pc \in {"read", "done"}
            THEN /\ rl' = [rl EXCEPT ![s] =
                            [pc |-> pc,
                             msg |-> IF pc = "done" THEN m ELSE NoMsg,
                             during |-> during]]
                 /\ UNCHANGED <<responses, events, errors>>
            ELSE IF CanForward(s, pc)
              THEN /\ responses' = [responses EXCEPT ![s] = Forwarded(s, pc, m).resp]
                   /\ events' = [events EXCEPT ![s] = Forwarded(s, pc, m).ev]
                   /\ errors' = [errors EXCEPT ![s] = Forwarded(s, pc, m).err]
                   /\ rl' = [rl EXCEPT ![s] =
                              [pc |-> AfterForward(pc),
                               msg |-> IF AfterForward(pc) = "done" THEN m
                                       ELSE NoMsg,
                               during |-> during]]
              ELSE /\ rl' = [rl EXCEPT ![s] =
                              [pc |-> pc, msg |-> m, during |-> during]]
                   /\ UNCHANGED <<responses, events, errors>>
    /\ UNCHANGED <<started, mailbox, call, reqSeq, conn, writes, answered,
                   unsolicited, stream, returned, factVars, restVars>>

\* readLoop, blocked at a send on a full channel, gets the message through
\* once the channel has room.
readLoop_Forward(s) ==
    /\ s \in started
    /\ CanForward(s, rl[s].pc)
    /\ responses' = [responses EXCEPT ![s] = Forwarded(s, rl[s].pc, rl[s].msg).resp]
    /\ events' = [events EXCEPT ![s] = Forwarded(s, rl[s].pc, rl[s].msg).ev]
    /\ errors' = [errors EXCEPT ![s] = Forwarded(s, rl[s].pc, rl[s].msg).err]
    /\ rl' = [rl EXCEPT ![s].pc = AfterForward(rl[s].pc),
                        ![s].msg = IF AfterForward(rl[s].pc) = "done"
                                     THEN rl[s].msg ELSE NoMsg]
    /\ UNCHANGED <<started, mailbox, call, reqSeq, conn, writes, answered,
                   unsolicited, stream, wire, returned, factVars, restVars>>

\* ------------------------------------------------------------- the backend
\* The backend answers the oldest request it has not answered.
BackendRespond(s) ==
    /\ s \in started
    /\ stream[s] = "open"
    /\ answered[s] < Len(conn[s])
    /\ wire' = [wire EXCEPT ![s] = Append(@, ResponseMsg(conn[s][answered[s] + 1]))]
    /\ answered' = [answered EXCEPT ![s] = @ + 1]
    /\ UNCHANGED <<started, mailbox, call, reqSeq, conn, writes, unsolicited,
                   stream, rl, responses, events, errors, returned, factVars, restVars>>

\* The backend emits a message no request asked for: an event, or a message
\* that is neither a response nor an event.
BackendEmitUpTo(s, m, n) ==
    /\ s \in started
    /\ stream[s] = "open"
    /\ unsolicited[s] < n
    /\ wire' = [wire EXCEPT ![s] = Append(@, m)]
    /\ unsolicited' = [unsolicited EXCEPT ![s] = @ + 1]
    /\ UNCHANGED <<started, mailbox, call, reqSeq, conn, writes, answered,
                   stream, rl, responses, events, errors, returned, factVars, restVars>>

BackendEmit(s, m) == BackendEmitUpTo(s, m, MaxEvents)

\* The backend's output ends: with bytes that do not decode, or with a clean
\* end of stream.
BackendEnd(s, m) ==
    /\ s \in started
    /\ stream[s] = "open"
    /\ m \in {GarbageMsg, EOFMsg}
    /\ wire' = [wire EXCEPT ![s] = Append(@, m)]
    /\ stream' = [stream EXCEPT ![s] = m.type]
    /\ UNCHANGED <<started, mailbox, call, reqSeq, conn, writes, answered,
                   unsolicited, rl, responses, events, errors, returned,
                   factVars, restVars>>

\* ------------------------------------------------------ debugger factory
\* The commands a DebuggerCmd can carry.
CreatingCmds_WithStop ==
    {"StartDebuggerCmd", "CreateSessionCmd", "StopDebuggerCmd"}
CreatingCmds == {"StartDebuggerCmd", "CreateSessionCmd"}
DebuggerCommands == CreatingCmds \cup {"StopDebuggerCmd"}

\* fmt.Sprintf("session-%d", n), and the service key made from it.
SessionID(n) == <<"session-", n>>
NoID == <<"", 0>>

\* The response of a successful creation: the session reference.
CreateSessionResp(ref) == [Session |-> ref]
ErrorResp(text) == [Err |-> text]

\* actor.RegisterWithSystem: the actor joins those registered under the key.
Register(rec, key, ref) ==
    IF key \in DOMAIN rec
      THEN [rec EXCEPT ![key] = Append(@, ref)]
      ELSE [k \in DOMAIN rec \cup {key} |->
              IF k = key THEN <<ref>> ELSE rec[k]]

\* actor.FindInReceptionist: the references registered under the key.
FindInReceptionist(rec, key) == IF key \in DOMAIN rec THEN rec[key] ELSE <<>>

\* A caller's Ask on the debugger actor that is not under way.
IdleCmd == [pc |-> "idle", cmd |-> "-", n |-> 0]

\* The debugger actor's behavior is not running.
FactoryIdle == \A c \in Callers : fcall[c].pc \notin {"receive", "register"}

\* Caller c sends the debugger actor a command.
EnqueueCmd(c, cmd) ==
    /\ ActorCtx = "live"
    /\ fcall[c].pc = "idle"
    /\ cmdSeq < MaxCmds
    /\ cmdSeq' = cmdSeq + 1
    /\ fcall' = [fcall EXCEPT ![c] = [pc |-> "queued", cmd |-> cmd,
                                      n |-> cmdSeq + 1]]
    /\ fmailbox' = Append(fmailbox, c)
    /\ UNCHANGED <<nextSessionID, receptionist, fresp, sessVars, pureVars>>

\* debugger.Ask(ctx, cmd) from outside a tool handler.
AskDebugger(c, cmd) == EnqueueCmd(c, cmd) /\ UNCHANGED <<lifeVars, mcpVars>>

\* The debugger actor takes the next command and calls debugger.Receive.
DispatchDebugger ==
    /\ fmailbox # <<>>
    /\ FactoryIdle
    /\ fmailbox' = Tail(fmailbox)
    /\ fcall' = [fcall EXCEPT ![Head(fmailbox)].pc = "receive"]
    /\ UNCHANGED <<nextSessionID, receptionist, cmdSeq, fresp, sessVars, restVars>>

\* debugger.Receive returns.
Respond(c, ok, resp, id, ref) ==
    /\ fresp' = Append(fresp, [n |-> fcall[c].n, cmd |-> fcall[c].cmd,
                               ok |-> ok, resp |-> resp, id |-> id,
                               ref |-> ref])
    /\ fcall' = [fcall EXCEPT ![c] = IdleCmd]

\* NewSession failed: Receive returns the error, before it touches the
\* counter.
OnCreateFailed_CountsAttempt(c) ==
    /\ Respond(c, FALSE, ErrorResp("could not create session"), NoID, 0)
    /\ nextSessionID' = nextSessionID + 1
OnCreateFailed(c) ==
    /\ Respond(c, FALSE, ErrorResp("could not create session"), NoID, 0)
    /\ UNCHANGED nextSessionID

\* case *StartDebuggerCmd, *CreateSessionCmd: session, err := NewSession().
\* Launching and connecting to the backend succeeds or fails (ok); on
\* success the Session exists and its read loop runs.
debugger_NewSession(c, ok) ==
    /\ fcall[c].pc = "receive"
    /\ fcall[c].cmd \in CreatingCmds
    /\ IF ok
         THEN /\ started' = started \cup {fcall[c].n}
              /\ fcall' = [fcall EXCEPT ![c].pc = "register"]
              /\ UNCHANGED <<nextSessionID, fresp>>
         ELSE /\ OnCreateFailed(c)
              /\ UNCHANGED started
    /\ UNCHANGED <<receptionist, fmailbox, cmdSeq, mailbox, call, reqSeq, conn,
                   writes, answered, unsolicited, stream, wire, rl, responses,
                   events, errors, returned, restVars>>

\* d.nextSessionID++
AllocSessionID_NoIncrement(n) == n
AllocSessionID(n) == n + 1

\* The rest of a successful creation: allocate the identifier, register the
\* session actor under it, look its reference up and return it.
debugger_Register(c) ==
    /\ fcall[c].pc = "register"
    /\ LET n == AllocSessionID(nextSessionID)
           sessionID == SessionID(n)
           rec == Register(receptionist, sessionID, fcall[c].n)
           sessionRef == FindInReceptionist(rec, sessionID)[1]
       IN /\ nextSessionID' = n
          /\ receptionist' = rec
          /\ Respond(c, TRUE, CreateSessionResp(sessionRef), sessionID,
                     fcall[c].n)
    /\ UNCHANGED <<fmailbox, cmdSeq, sessVars, restVars>>

\* default: unknown command type.
debugger_Unknown(c) ==
    /\ fcall[c].pc = "receive"
    /\ fcall[c].cmd \notin CreatingCmds
    /\ Respond(c, FALSE, ErrorResp("unknown command type"), NoID, 0)
    /\ UNCHANGED <<nextSessionID, receptionist, fmailbox, cmdSeq, sessVars, restVars>>

\* A new debugger actor: no session yet.
FactoryStart ==
    /\ nextSessionID = 0
    /\ receptionist = <<>>
    /\ fmailbox = <<>>
    /\ fcall = [c \in Callers |-> IdleCmd]
    /\ cmdSeq = 0
    /\ fresp = <<>>
    /\ started = {}

FactoryInit ==
    /\ FactoryStart
    /\ SessionInit
    /\ RestInit

FactoryNext ==
    \/ \E c \in Callers, cmd \in DebuggerCommands : AskDebugger(c, cmd)
    \/ DispatchDebugger
    \/ \E c \in Callers, ok \in BOOLEAN : debugger_NewSession(c, ok)
    \/ \E c \in Callers : debugger_Register(c)
    \/ \E c \in Callers : debugger_Unknown(c)

FactorySpec == FactoryInit /\ [][FactoryNext]_vars

\* ------------------------------------------------------------ Session.Stop
\* The process runs: no goroutine has panicked.
Alive == ~panicked

\* close(s.quit) on a channel that is already closed: a run-time panic
\* ("close of closed channel"), which nothing recovers; Stop goes no further.
OnQuitClosed_Proceeds(s, c) ==
    /\ stopCall' = [stopCall EXCEPT ![s][c] = "closeConn"]
    /\ UNCHANGED panicked
OnQuitClosed(s, c) ==
    /\ panicked' = TRUE
    /\ UNCHANGED stopCall

\* Stop, first statement: close(s.quit). The repository has no caller of
\* Stop; it is modelled as called by whoever holds the Session.
Stop_CloseQuit(s, c) ==
    /\ Alive
    /\ s \in started
    /\ stopCall[s][c] = IdleStop
    /\ stops < MaxStops
    /\ stops' = stops + 1
    /\ IF quit[s] = "open"
         THEN /\ quit' = [quit EXCEPT ![s] = "closed"]
              /\ stopCall' = [stopCall EXCEPT ![s][c] = "closeConn"]
              /\ UNCHANGED panicked
         ELSE /\ OnQuitClosed(s, c)
              /\ UNCHANGED quit
    /\ UNCHANGED <<connCloses, cleanups, serviceStopped, sessVars, factVars,
                   mcpVars, pureVars>>

\* Stop, second statement: s.conn.Close().
Stop_CloseConn(s, c) ==
    /\ Alive
    /\ stopCall[s][c] = "closeConn"
    /\ connCloses' = [connCloses EXCEPT ![s] = @ + 1]
    /\ stopCall' = [stopCall EXCEPT ![s][c] = "cleanup"]
    /\ UNCHANGED <<quit, cleanups, stops, panicked, serviceStopped, sessVars,
                   factVars, mcpVars, pureVars>>

\* Stop, third statement: s.cleanup(), which kills the backend process.
Stop_Cleanup(s, c) ==
    /\ Alive
    /\ stopCall[s][c] = "cleanup"
    /\ cleanups' = [cleanups EXCEPT ![s] = @ + 1]
    /\ stopCall' = [stopCall EXCEPT ![s][c] = IdleStop]
    /\ UNCHANGED <<quit, connCloses, stops, panicked, serviceStopped,
                   sessVars, factVars, mcpVars, pureVars>>

\* MCPDebugService.Stop: s.actorSystem.Shutdown(). Nothing here calls
\* Session.Stop.
MCPDebugService_Stop == Alive /\ ActorSystem_Shutdown

\* The life of the daemon StartDaemon starts, whose factory is
\* newDebugger(System): sessions are created through the factory while the
\* actor system runs, sessions are stopped, and the program ends the daemon
\* with System.Shutdown(), the call MCPDebugService.Stop makes on its own
\* system.
LifecycleInit == FactoryInit

LifecycleNext ==
    \/ \E c \in Callers, cmd \in CreatingCmds : Alive /\ AskDebugger(c, cmd)
    \/ Alive /\ DispatchDebugger
    \/ \E c \in Callers, ok \in BOOLEAN : Alive /\ debugger_NewSession(c, ok)
    \/ \E c \in Callers : Alive /\ debugger_Register(c)
    \/ \E s \in SessionRefs, c \in Callers : Stop_CloseQuit(s, c)
    \/ \E s \in SessionRefs, c \in Callers : Stop_CloseConn(s, c)
    \/ \E s \in SessionRefs, c \in Callers : Stop_Cleanup(s, c)
    \/ Alive /\ ActorSystem_Shutdown

LifecycleSpec == LifecycleInit /\ [][LifecycleNext]_vars

\* --------------------------------------------------------- RetryWithBackoff
\* RetryConfig.Multiplier is a float64; the multipliers tried are the
\* fractions num/den below (1/2, 1, 3/2, 2), all exact as float64.
Multipliers == {<<1, 2>>, <<1, 1>>, <<3, 2>>, <<2, 1>>}

\* The RetryConfig values tried; delays are whole units of time.Duration.
RetryConfigs ==
    [MaxAttempts : 0..MaxAttemptsBound, InitialDelay : 0..MaxDelayBound,
     MaxDelay : 0..MaxDelayBound, Multiplier : Multipliers]

\* time.Duration(float64(delay) * config.Multiplier): the product, truncated.
Scale(d, m) == (d * m[1]) \div m[2]

\* The delay of the next sleep: scaled, and capped at MaxDelay.
NextDelay_Uncapped(d, cfg) == Scale(d, cfg.Multiplier)
NextDelay(d, cfg) ==
    IF Scale(d, cfg.Multiplier) > cfg.MaxDelay
      THEN cfg.MaxDelay
      ELSE Scale(d, cfg.Multiplier)

\* for attempt := 1; attempt <= config.MaxAttempts; attempt++
LoopRuns_OneShort(a, cfg) == a < cfg.MaxAttempts
LoopRuns(a, cfg) == a <= cfg.MaxAttempts

\* case <-ctx.Done() of the select that opens an attempt.
CtxDoneAtCheck_Ignored(c) == FALSE
CtxDoneAtCheck(c) == c = "done"

\* What RetryWithBackoff returns: nil, ctx.Err(), or "operation failed after
\* %d attempts, last error: %w" with config.MaxAttempts and lastErr.
RetryNil == [kind |-> "nil", attempts |-> 0, wraps |-> 0]
RetryCtxErr == [kind |-> "ctxErr", attempts |-> 0, wraps |-> 0]
RetryExhausted(cfg, e) ==
    [kind |-> "exhausted", attempts |-> cfg.MaxAttempts, wraps |-> e]

\* RetryWithBackoff is entered with config cfg and context c.
RetryBegin(cfg, c) ==
    /\ config' = cfg
    /\ retryCtx' = c
    /\ retryPc' = "loop"
    /\ attempt' = 1
    /\ delay' = cfg.InitialDelay
    /\ lastErr' = 0
    /\ invocations' = <<>>
    /\ sleeps' = <<>>
    /\ retryResult' = NoResult

\* RetryWithBackoff returns r.
RetryReturn(r) ==
    /\ retryPc' = "returned"
    /\ retryResult' = r

\* The head of the loop: the loop condition, then the select on ctx.Done()
\* with its default branch.
Retry_Loop ==
    /\ retryPc = "loop"
    /\ IF ~LoopRuns(attempt, config)
         THEN RetryReturn(RetryExhausted(config, lastErr))
         ELSE IF CtxDoneAtCheck(retryCtx)
           THEN RetryReturn(RetryCtxErr)
           ELSE retryPc' = "operation" /\ UNCHANGED retryResult
    /\ UNCHANGED <<config, retryCtx, attempt, delay, lastErr, invocations,
                   sleeps>>

\* err := operation(), which succeeds or fails (ok); a failure is named by
\* the number of the invocation that produced it. On success return nil; on
\* the last attempt break out and return the error; otherwise go to sleep.
Retry_Operation(ok) ==
    /\ retryPc = "operation"
    /\ invocations' = Append(invocations, ok)
    /\ IF ok
         THEN /\ RetryReturn(RetryNil)
              /\ UNCHANGED <<lastErr, sleeps>>
         ELSE /\ lastErr' = Len(invocations) + 1
              /\ IF attempt = config.MaxAttempts
                   THEN /\ RetryReturn(RetryExhausted(config,
                                                      Len(invocations) + 1))
                        /\ UNCHANGED sleeps
                   ELSE /\ retryPc' = "sleep"
                        /\ sleeps' = Append(sleeps, delay)
                        /\ UNCHANGED retryResult
    /\ UNCHANGED <<config, retryCtx, attempt, delay>>

\* case <-time.After(delay): the sleep is over; compute the next delay and
\* go round the loop.
Retry_TimerFires ==
    /\ retryPc = "sleep"
    /\ delay' = NextDelay(delay, config)
    /\ attempt' = attempt + 1
    /\ retryPc' = "loop"
    /\ UNCHANGED <<config, retryCtx, lastErr, invocations, sleeps,
                   retryResult>>

\* case <-ctx.Done() during the sleep: return ctx.Err().
Retry_SleepCancelled ==
    /\ retryPc = "sleep"
    /\ retryCtx = "done"
    /\ RetryReturn(RetryCtxErr)
    /\ UNCHANGED <<config, retryCtx, attempt, delay, lastErr, invocations,
                   sleeps>>

\* The context is cancelled, or its deadline passes, while RetryWithBackoff
\* runs.
Retry_Cancel ==
    /\ retryPc \in {"loop", "operation", "sleep"}
    /\ retryCtx = "live"
    /\ retryCtx' = "done"
    /\ UNCHANGED <<config, retryPc, attempt, delay, lastErr, invocations,
                   sleeps, retryResult>>

\* A call of RetryWithBackoff with any of the configs, and a context that
\* cannot be cancelled (context.Background()) or that can.
RetryInit ==
    /\ SessionInit /\ FactoryStart /\ LifeInit /\ McpIdle /\ LaunchIdle
    /\ ApiIdle
    /\ config \in RetryConfigs
    /\ retryCtx \in {"background", "live"}
    /\ retryPc = "loop"
    /\ attempt = 1
    /\ delay = config.InitialDelay
    /\ lastErr = 0
    /\ invocations = <<>>
    /\ sleeps = <<>>
    /\ retryResult = NoResult

RetryNext ==
    \/ Retry_Loop /\ UNCHANGED <<progVars, launchVars, apiVars>>
    \/ \E ok \in BOOLEAN :
          Retry_Operation(ok) /\ UNCHANGED <<progVars, launchVars, apiVars>>
    \/ Retry_TimerFires /\ UNCHANGED <<progVars, launchVars, apiVars>>
    \/ Retry_SleepCancelled /\ UNCHANGED <<progVars, launchVars, apiVars>>
    \/ Retry_Cancel /\ UNCHANGED <<progVars, launchVars, apiVars>>

RetrySpec == RetryInit /\ [][RetryNext]_vars

\* ------------------------------------------------------ launchDelveExternal
\* The RetryConfig launchDelveOnceExternal dials with; delays in milliseconds.
DialRetryConfig ==
    [MaxAttempts |-> 3, InitialDelay |-> 50, MaxDelay |-> 200,
     Multiplier |-> <<2, 1>>]

\* What can happen up to cmd.Start(): dlv is not found, the stdout pipe or
\* the start fails, or the process is started.
StartOutcomes == {"noDlv", "noPipe", "noStart", "started"}

\* What the select that waits for the address sees first: the address line,
\* the scanner's error or the end of stdout (errCh), or the 5 second timeout.
AddrOutcomes == {"addr", "scanErr", "stdoutEnded", "timeout"}

\* cleanup(): cmd.Process.Kill() on the process of attempt k.
Cleanup_Skipped(k) == procs
Cleanup(k) == [procs EXCEPT ![k] = "killed"]

\* launchDelveOnceExternal returned an error: the retry loop of
\* launchDelveExternal gives up after DefaultRetryConfig.MaxAttempts attempts
\* and otherwise sleeps before the next one.
OnceFailed(err) ==
    IF launchAttempt = DefaultMaxAttempts
      THEN /\ launchPc' = "returned"
           /\ launchResult' = [ok |-> FALSE,
                               err |-> "failed to launch Delve after retries"]
      ELSE /\ launchPc' = "sleep"
           /\ launchResult' = [ok |-> FALSE, err |-> err]

\* launchDelveOnceExternal up to the start of the process.
LaunchOnce_Start(o) ==
    /\ launchPc = "start"
    /\ IF o = "started"
         THEN /\ procs' = [procs EXCEPT ![launchAttempt] = "running"]
              /\ launchPc' = "waitAddr"
              /\ UNCHANGED launchResult
         ELSE /\ OnceFailed(o)
              /\ UNCHANGED procs
    /\ UNCHANGED <<launchAttempt, retryVars, progVars, apiVars>>

\* The select on addrCh, errCh and ctx.Done(): with the address the dial
\* begins, under the context that carries the timeout; otherwise cleanup()
\* is called and the error returned.
LaunchOnce_WaitAddr(o) ==
    /\ launchPc = "waitAddr"
    /\ IF o = "addr"
         THEN /\ launchPc' = "dial"
              /\ RetryBegin(DialRetryConfig, "live")
              /\ UNCHANGED <<procs, launchResult>>
         ELSE /\ procs' = Cleanup(launchAttempt)
              /\ OnceFailed(o)
              /\ UNCHANGED retryVars
    /\ UNCHANGED <<launchAttempt, progVars, apiVars>>

\* connectErr is what RetryWithBackoff returned for the dial: nil, and the
\* connection and the cleanup closure are returned; or an error, and
\* cleanup() is called before the error is returned.
LaunchOnce_AfterDial ==
    /\ launchPc = "dial"
    /\ retryPc = "returned"
    /\ IF retryResult = RetryNil
         THEN /\ launchPc' = "returned"
              /\ launchResult' = [ok |-> TRUE, err |-> "none"]
              /\ UNCHANGED procs
         ELSE /\ procs' = Cleanup(launchAttempt)
              /\ OnceFailed("could not connect to dlv dap server")
    /\ UNCHANGED <<launchAttempt, retryVars, progVars, apiVars>>

\* The sleep of launchDelveExternal's retry loop is over: next attempt.
Launch_Retry ==
    /\ launchPc = "sleep"
    /\ launchAttempt' = launchAttempt + 1
    /\ launchPc' = "start"
    /\ UNCHANGED <<procs, launchResult, retryVars, progVars, apiVars>>

\* launchDelveExternal has been called and is at its first attempt.
LaunchInit ==
    /\ SessionInit /\ FactoryStart /\ LifeInit /\ McpIdle /\ RetryIdle
    /\ ApiIdle
    /\ launchPc = "start"
    /\ launchAttempt = 1
    /\ procs = [k \in 1..DefaultMaxAttempts |-> "none"]
    /\ launchResult = NoLaunchResult

\* The dial runs while launchDelveOnceExternal waits for it.
Dialing == launchPc = "dial"

LaunchNext ==
    \/ \E o \in StartOutcomes : LaunchOnce_Start(o)
    \/ \E o \in AddrOutcomes : LaunchOnce_WaitAddr(o)
    \/ LaunchOnce_AfterDial
    \/ Launch_Retry
    \/ Dialing /\ Retry_Loop /\ UNCHANGED <<progVars, launchVars, apiVars>>
    \/ \E ok \in BOOLEAN :
          /\ Dialing
          /\ Retry_Operation(ok)
          /\ UNCHANGED <<progVars, launchVars, apiVars>>
    \/ Dialing /\ Retry_TimerFires
               /\ UNCHANGED <<progVars, launchVars, apiVars>>
    \/ Dialing /\ Retry_SleepCancelled
               /\ UNCHANGED <<progVars, launchVars, apiVars>>
    \/ Dialing /\ Retry_Cancel /\ UNCHANGED <<progVars, launchVars, apiVars>>

LaunchSpec == LaunchInit /\ [][LaunchNext]_vars

\* -------------------------------------------------------- typed operations
\* How a typed operation's Ask and Await end: with the response type it
\* expects, with a dap.ErrorResponse, with a response of another type, or
\* with an error of the Call.
Replies == {"expected", "ErrorResponse", "other", "err"}

\* The error a typed operation without a case for dap.ErrorResponse returns:
\* the error of the Call, nil, or the error of the failed type assertion.
ReplyError(reply) ==
    CASE reply = "expected" -> ""
      [] reply = "err" -> "call failed"
      [] OTHER -> "unexpected response type"

\* session.Ask(context.Background(), dapReq): the session is handed the
\* request. Of the requests handed over, the last two are kept.
Asked(req) == IF asked = <<>> THEN <<req>> ELSE <<asked[Len(asked)], req>>

\* ------------------------------------------------------------ SetBreakpoints
\* The source files and lines breakpoints are set on, and the
\* BreakpointLocation values tried (line only, the other fields zero).
Files == {"X", "Y"}
Lines == {10, 20, 30}
Locations == {[File |-> "X", Line |-> 10], [File |-> "Y", Line |-> 10]}

\* The lists of up to n elements of S that name no element twice.
SeqsUpTo(S, n) ==
    {q \in UNION {[1..k -> S] : k \in 0..n} :
        \A i, j \in 1..Len(q) : i # j => q[i] # q[j]}

\* All breakpoints must be for the same file: that of the first.
SameFile_Unchecked(bps) == TRUE
SameFile(bps) == \A i \in 2..Len(bps) : bps[i].File = bps[1].File

\* Convert breakpoint locations to DAP source breakpoints, one for one.
SourceBreakpoints_Merged(bps) ==
    (IF asked # <<>> /\ asked[Len(asked)].path = bps[1].File
       THEN asked[Len(asked)].breakpoints ELSE <<>>)
    \o [i \in 1..Len(bps) |-> [Line |-> bps[i].Line]]
SourceBreakpoints(bps) == [i \in 1..Len(bps) |-> [Line |-> bps[i].Line]]

\* The dap.SetBreakpointsRequest built for a list of locations.
SetBreakpointsRequest(bps) ==
    [command |-> "setBreakpoints", path |-> bps[1].File,
     breakpoints |-> SourceBreakpoints(bps)]

\* ------------------------------------------------------------- LaunchProgram
\* A string is the sequence of its pieces, cut so that every text the code
\* looks for (".go", "_test.go", ".test", "__debug_bin", "-test.",
\* "-gcflags", "-N -l") is made of whole pieces: "calc_test.go" is
\* <<"calc", "_test", ".go">>.
HasSuffix(s, suffix) ==
    /\ Len(s) >= Len(suffix)
    /\ SubSeq(s, Len(s) - Len(suffix) + 1, Len(s)) = suffix

\* strings.Contains(s, substr).
Contains(s, substr) ==
    \E i \in 1..(Len(s) - Len(substr) + 1) :
        SubSeq(s, i, i + Len(substr) - 1) = substr

\* The target paths tried: a source file, a test file, a test binary, the
\* binary dlv builds, a path with a directory named like it, a built program
\* and a package directory.
Programs ==
    {<<"main", ".go">>, <<"calc", "_test", ".go">>, <<"calc", ".test">>,
     <<"__debug_bin">>, <<"__debug_bin", "/main", ".go">>, <<"bin/app">>,
     <<"./cmd/server">>}

\* The argument lists tried: none, a plain one, one that opens with a test
\* flag.
ArgLists == {<<>>, <<<<"-v">>>>, <<<<"-test.", "run=TestAdd">>>>}

\* The build flags tried.
BuildFlagLists ==
    {<<>>, <<<<"-race">>>>, <<<<"-gcflags", "=-m">>>>,
     <<<<"-gcflags">>, <<"all=", "-N -l">>>>, <<<<"-tags=x">>, <<"-race">>>>}

\* What os.Stat(config.Program) finds: nothing, a file without an execute
\* bit, or a file or directory with one.
StatOutcomes == {"missing", "plain", "executable"}

\* The LaunchConfig values tried (Name, Env, WorkingDir, StopOnEntry are
\* copied into the request unchanged and left out).
LaunchConfigs ==
    [Program : Programs, Args : ArgLists, BuildFlags : BuildFlagLists]

\* isTest of LaunchProgram.
IsTest(cfg) ==
    \/ HasSuffix(cfg.Program, <<"_test", ".go">>)
    \/ HasSuffix(cfg.Program, <<".test">>)
    \/ Len(cfg.Args) > 0 /\ Contains(cfg.Args[1], <<"-test.">>)

\* The launch mode LaunchProgram derives.
LaunchMode(cfg, stat) ==
    IF HasSuffix(cfg.Program, <<".test">>)
         \/ Contains(cfg.Program, <<"__debug_bin">>)
      THEN "exec"
      ELSE IF IsTest(cfg) \/ HasSuffix(cfg.Program, <<"_test", ".go">>)
        THEN "test"
        ELSE IF ~HasSuffix(cfg.Program, <<".go">>) /\ stat = "executable"
          THEN "exec"
          ELSE "debug"

\* hasDebugFlags of LaunchProgram.
HasDebugFlags(flags) ==
    \E i \in 1..Len(flags) :
        Contains(flags[i], <<"-gcflags">>) \/ Contains(flags[i], <<"-N -l">>)

\* debugFlags of LaunchProgram: "-gcflags", "all=-N -l".
DebugFlags == <<<<"-gcflags">>, <<"all=", "-N -l">>>>

\* The build flags of the launch request.
LaunchBuildFlags(cfg, mode) ==
    IF mode # "exec" /\ ~HasDebugFlags(cfg.BuildFlags)
      THEN DebugFlags \o cfg.BuildFlags
      ELSE cfg.BuildFlags

\* The dap.LaunchRequest built for a config: launchArgs, with the optional
\* keys present only when they have a value.
LaunchRequest(cfg, stat) ==
    LET mode == LaunchMode(cfg, stat)
        flags == LaunchBuildFlags(cfg, mode)
        base == [command |-> "launch", mode |-> mode,
                 program |-> cfg.Program]
        withArgs == IF Len(cfg.Args) > 0
                      THEN [k \in DOMAIN base \cup {"args"} |->
                              IF k = "args" THEN cfg.Args ELSE base[k]]
                      ELSE base
    IN IF Len(flags) > 0
         THEN [k \in DOMAIN withArgs \cup {"buildFlags"} |->
                 IF k = "buildFlags" THEN flags ELSE withArgs[k]]
         ELSE withArgs

\* What LaunchProgram returns for what came back from the session.
LaunchReplyError(reply) ==
    CASE reply = "expected" -> ""
      [] reply = "ErrorResponse" -> "launch failed"
      [] reply = "err" -> "call failed"
      [] OTHER -> "unexpected response type"

\* --------------------------------------------------- the session protocol
\* One session, created by the factory's first command and registered as
\* session-1; callers drive it through its actor reference.
FirstSession ==
    /\ started = {1}
    /\ nextSessionID = 1
    /\ receptionist = [k \in {SessionID(1)} |-> <<1>>]
    /\ cmdSeq = 1
    /\ fmailbox = <<>>
    /\ fcall = [c \in Callers |-> IdleCmd]
    /\ fresp = <<[n |-> 1, cmd |-> "CreateSessionCmd", ok |-> TRUE,
                  resp |-> CreateSessionResp(1), id |-> SessionID(1),
                  ref |-> 1]>>

Init == SessionInit /\ RestInit /\ FirstSession

SessionNext ==
    \/ \E s \in SessionRefs, c \in Callers : TypedOperation(s, c)
    \/ \E s \in SessionRefs, c \in Callers : AskWithContext(s, c)
    \/ \E s \in SessionRefs, c \in Callers : CancelContext(s, c)
    \/ ActorSystem_Shutdown
    \/ \E s \in SessionRefs : Dispatch(s)
    \/ \E s \in SessionRefs, c \in Callers, ok \in BOOLEAN :
          Receive_Write(s, c, ok)
    \/ \E s \in SessionRefs, c \in Callers : Receive_Select(s, c)
    \/ \E s \in SessionRefs : readLoop_Read(s)
    \/ \E s \in SessionRefs : readLoop_Forward(s)
    \/ \E s \in SessionRefs : BackendRespond(s)
    \/ \E s \in SessionRefs : BackendEmit(s, AnyEvent)
    \/ \E s \in SessionRefs : BackendEmit(s, OtherMsg)
    \/ \E s \in SessionRefs, m \in {GarbageMsg, EOFMsg} : BackendEnd(s, m)

Spec == Init /\ [][SessionNext]_vars

\* ------------------------------------------------- the execution operations
\* Continue, Next, StepIn, StepOut and Pause, and the threads they are
\* called for.
ExecutionOps == {"Continue", "Next", "StepIn", "StepOut", "Pause"}
ThreadIDs == {1, 2}

\* Request.Command of the request each operation builds.
Command_AllContinue(op) == "continue"
Command(op) ==
    CASE op = "Continue" -> "continue"
      [] op = "Next" -> "next"
      [] op = "StepIn" -> "stepIn"
      [] op = "StepOut" -> "stepOut"
      [] op = "Pause" -> "pause"

\* The dap request an execution operation builds: the command and
\* Arguments.ThreadId.
ExecutionRequest(op, threadID) ==
    [command |-> Command(op), threadId |-> threadID]

\* A dap.ErrorResponse to request r, and the Body.Error the backend puts in
\* it.
ErrorResponseMsg(r) == Msg("response", r, "ErrorResponse")
ErrorBody == [Format |-> "could not find thread", Id |-> 2004]

\* The operations that look for a dap.ErrorResponse when the response is not
\* of the type they expect: of the execution operations, Continue alone.
HandlesErrorResponse(op) == op = "Continue"

\* Caller c calls an execution operation on session s: the operation builds
\* its request and Asks the session with context.Background(). The callers
\* call one after the other.
ExecutionOperation(s, c, op, threadID) ==
    /\ \A d \in Callers : call[s][d].pc = "idle"
    /\ Enqueue(s, c, TRUE, TypedOperationCtx)
    /\ ops' = [ops EXCEPT ![s] =
                 Append(@, [op |-> op, threadID |-> threadID,
                            request |-> ExecutionRequest(op, threadID)])]
    /\ UNCHANGED <<asked, apiCall>>

\* The backend answers the oldest request it has not answered with an error
\* response.
BackendRespondError(s) ==
    /\ s \in started
    /\ stream[s] = "open"
    /\ answered[s] < Len(conn[s])
    /\ wire' = [wire EXCEPT ![s] =
                  Append(@, ErrorResponseMsg(conn[s][answered[s] + 1]))]
    /\ answered' = [answered EXCEPT ![s] = @ + 1]
    /\ UNCHANGED <<started, mailbox, call, reqSeq, conn, writes, unsolicited,
                   stream, rl, responses, events, errors, returned, factVars,
                   restVars>>

\* What the operation behind the i-th result of session s returns to its
\* caller: the error of the Call, nil with a response of the type the
\* operation expects, and otherwise the error the type assertion leads to.
\* A response has the type of the operation whose request it answers.
OperationError(s, i) ==
    LET res == returned[s][i]
        op == ops[s][res.req].op
    IN IF res.kind # "ok"
         THEN [text |-> "call failed"]
         ELSE IF res.msg.type = "response" /\ res.msg.kind = "ErrorResponse"
           THEN IF HandlesErrorResponse(op)
                  THEN [text |-> "continue failed",
                        format |-> ErrorBody.Format, id |-> ErrorBody.Id]
                  ELSE [text |-> "unexpected response type"]
           ELSE IF res.msg.type = "response"
                   /\ ops[s][res.msg.req].op = op
             THEN [text |-> ""]
             ELSE [text |-> "unexpected response type"]

ExecutionInit == Init

\* Execution operations on a session whose backend answers each request with
\* a response or an error response, and whose output may end. One operation
\* is in flight at a time and the backend sends no events, so no channel is
\* ever full and readLoop never blocks at a send.
ExecutionNext ==
    \/ \E s \in SessionRefs, c \in Callers, op \in ExecutionOps,
          threadID \in ThreadIDs : ExecutionOperation(s, c, op, threadID)
    \/ \E s \in SessionRefs : Dispatch(s)
    \/ \E s \in SessionRefs, c \in Callers, ok \in BOOLEAN :
          Receive_Write(s, c, ok)
    \/ \E s \in SessionRefs, c \in Callers : RecvResponse(s, c)
    \/ \E s \in SessionRefs, c \in Callers : RecvError(s, c)
    \/ \E s \in SessionRefs : readLoop_Read(s)
    \/ \E s \in SessionRefs : BackendRespond(s)
    \/ \E s \in SessionRefs : BackendRespondError(s)
    \/ \E s \in SessionRefs, m \in {GarbageMsg, EOFMsg} : BackendEnd(s, m)

ExecutionSpec == ExecutionInit /\ [][ExecutionNext]_vars

\* ------------------------------------- typed operations and their sessions
\* How the Ask and Await behind the i-th result of session s ended for the
\* typed operation that made the request: Unpack gave the error of the Call,
\* or the response Receive returned, which has the type of the operation
\* whose request it answers unless it is a dap.ErrorResponse.
Reply(s, i) ==
    LET res == returned[s][i]
    IN IF res.kind # "ok"
         THEN "err"
         ELSE IF res.msg.kind = "ErrorResponse"
           THEN "ErrorResponse"
           ELSE IF ops[s][res.msg.req].op = ops[s][res.req].op
             THEN "expected"
             ELSE "other"

\* SetBreakpoints(session, breakpoints), entered directly or through
\* SetSourceBreakpoints (via): validate the list and return at once if it is
\* empty or names two files; else build the request and Ask the session with
\* context.Background(). The caller then waits in Await until Receive has
\* returned.
SetBreakpointsFrom(s, c, via, bps) ==
    /\ s \in started
    /\ call[s][c].pc = "idle"
    /\ IF Len(bps) = 0
         THEN /\ apiCall' = [op |-> via, bps |-> bps,
                             err |-> "no breakpoints provided"]
              /\ UNCHANGED <<asked, ops, progVars, retryVars, launchVars>>
         ELSE IF ~SameFile(bps)
           THEN /\ apiCall' = [op |-> via, bps |-> bps,
                               err |-> "all breakpoints must be for the same file"]
                /\ UNCHANGED <<asked, ops, progVars, retryVars, launchVars>>
           ELSE /\ Enqueue(s, c, TRUE, TypedOperationCtx)
                /\ asked' = Asked(SetBreakpointsRequest(bps))
                /\ ops' = [ops EXCEPT ![s] =
                             Append(@, [op |-> "SetBreakpoints", via |-> via,
                                        bps |-> bps,
                                        request |-> SetBreakpointsRequest(bps)])]
                /\ UNCHANGED apiCall

SetBreakpoints(s, c, bps) == SetBreakpointsFrom(s, c, "SetBreakpoints", bps)

\* SetSourceBreakpoints(session, sourcePath, lines): one BreakpointLocation
\* per line, all in sourcePath, passed to SetBreakpoints.
SetSourceBreakpoints(s, c, sourcePath, lines) ==
    SetBreakpointsFrom(s, c, "SetSourceBreakpoints",
                       [i \in 1..Len(lines) |->
                           [File |-> sourcePath, Line |-> lines[i]]])

\* What SetBreakpoints returns to its caller once Await has returned with the
\* i-th result of session s.
SetBreakpointsError(s, i) == ReplyError(Reply(s, i))

BreakpointInit == Init

\* Callers set breakpoints on a session, concurrently; its actor hands the
\* requests to Receive one at a time, and its backend answers each with a
\* response or an error response, or ends its output. One request is in
\* flight at a time and the backend sends no events, so no channel is ever
\* full and readLoop never blocks at a send.
BreakpointNext ==
    \/ \E s \in SessionRefs, c \in Callers,
          bps \in SeqsUpTo(Locations, MaxBreakpoints) :
            SetBreakpoints(s, c, bps)
    \/ \E s \in SessionRefs, c \in Callers,
          lines \in SeqsUpTo(Lines, MaxBreakpoints) :
            SetSourceBreakpoints(s, c, "X", lines)
    \/ \E s \in SessionRefs : Dispatch(s)
    \/ \E s \in SessionRefs, c \in Callers, ok \in BOOLEAN :
          Receive_Write(s, c, ok)
    \/ \E s \in SessionRefs, c \in Callers : RecvResponse(s, c)
    \/ \E s \in SessionRefs, c \in Callers : RecvError(s, c)
    \/ \E s \in SessionRefs : readLoop_Read(s)
    \/ \E s \in SessionRefs : BackendRespond(s)
    \/ \E s \in SessionRefs : BackendRespondError(s)
    \/ \E s \in SessionRefs, m \in {GarbageMsg, EOFMsg} : BackendEnd(s, m)

BreakpointSpec == BreakpointInit /\ [][BreakpointNext]_vars

\* LaunchProgram(session, config): derive the mode and the build flags,
\* build the request and Ask the session with context.Background(). The
\* caller then waits in Await until Receive has returned.
LaunchProgram(s, c, cfg, stat) ==
    /\ Enqueue(s, c, TRUE, TypedOperationCtx)
    /\ asked' = Asked(LaunchRequest(cfg, stat))
    /\ ops' = [ops EXCEPT ![s] =
                 Append(@, [op |-> "LaunchProgram", config |-> cfg,
                            stat |-> stat,
                            request |-> LaunchRequest(cfg, stat)])]
    /\ UNCHANGED apiCall

\* What LaunchProgram returns to its caller once Await has returned with the
\* i-th result of session s.
LaunchProgramError(s, i) == LaunchReplyError(Reply(s, i))

LaunchProgramInit == Init

\* The target of a session is launched once, and the backend answers, or
\* does not.
LaunchProgramNext ==
    \/ \E s \in SessionRefs, c \in Callers, cfg \in LaunchConfigs,
          stat \in StatOutcomes :
            reqSeq[s] = 0 /\ LaunchProgram(s, c, cfg, stat)
    \/ \E s \in SessionRefs : Dispatch(s)
    \/ \E s \in SessionRefs, c \in Callers, ok \in BOOLEAN :
          Receive_Write(s, c, ok)
    \/ \E s \in SessionRefs, c \in Callers : RecvResponse(s, c)
    \/ \E s \in SessionRefs, c \in Callers : RecvError(s, c)
    \/ \E s \in SessionRefs : readLoop_Read(s)
    \/ \E s \in SessionRefs : BackendRespond(s)
    \/ \E s \in SessionRefs : BackendRespondError(s)
    \/ \E s \in SessionRefs, m \in {GarbageMsg, EOFMsg} : BackendEnd(s, m)

LaunchProgramSpec == LaunchProgramInit /\ [][LaunchProgramNext]_vars

\* ------------------------------------------------- the create_session tool
\* The session_id values callers pass.
SessionNames == {"a", "b"}

\* mds.sessions[sessionID] = ref.
Store(m, id, ref) ==
    [k \in DOMAIN m \cup {id} |-> IF k = id THEN ref ELSE m[k]]

\* A handler is in the middle of writing the map.
MapWriters == {c \in Callers : tool[c].pc = "storing"}

\* The sessions map is a plain Go map the handlers read and write without a
\* lock. An access that overlaps another goroutine's write is a data race:
\* the runtime may stop the process (fatal error: concurrent map writes, or
\* concurrent map read and map write), or the access goes through.
MapAccess(c) ==
    \/ UNCHANGED panicked
    \/ MapWriters \ {c} # {} /\ panicked' = TRUE

\* The handlers that have been called and have not returned.
ToolsRunning == {c \in Callers : tool[c].pc # "idle"}

\* The tool handler returns its result.
ToolReturn(c, id, ok, text, ref) ==
    /\ toolResults' = Append(toolResults,
                             [id |-> id, ok |-> ok, text |-> text,
                              ref |-> ref])
    /\ tool' = [tool EXCEPT ![c] = IdleTool]

\* The create_session handler of caller c, called with session_id id: check
\* whether the session already exists; if not, Ask the debugger actor for a
\* session.
CreateSession_Ask(c, id) ==
    /\ tool[c].pc = "idle"
    /\ Len(toolResults) + Cardinality(ToolsRunning) < MaxCmds
    /\ MapAccess(c)
    /\ IF id \in DOMAIN sessions
         THEN /\ ToolReturn(c, id, FALSE, "already exists", 0)
              /\ UNCHANGED <<sessions, sessVars, factVars, pureVars>>
         ELSE /\ EnqueueCmd(c, "CreateSessionCmd")
              /\ tool' = [tool EXCEPT ![c] =
                            [pc |-> "await", id |-> id, n |-> cmdSeq + 1]]
              /\ UNCHANGED <<sessions, toolResults>>
    /\ UNCHANGED <<quit, connCloses, cleanups, stopCall, stops,
                   serviceStopped>>

\* The result of the handler's Ask, once the debugger actor has answered.
ToolAnswer(c) == {i \in 1..Len(fresp) : fresp[i].n = tool[c].n}

\* future.Await(ctx).Unpack() returned an error: the handler reports it.
CreateSession_Failed_Stores(c) ==
    /\ tool[c].pc = "await"
    /\ \E i \in ToolAnswer(c) :
          /\ ~fresp[i].ok
          /\ ToolReturn(c, tool[c].id, FALSE, "Failed to create session", 0)
    /\ sessions' = Store(sessions, tool[c].id, 0)
    /\ UNCHANGED <<sessVars, factVars, lifeVars, pureVars>>
CreateSession_Failed(c) ==
    /\ tool[c].pc = "await"
    /\ \E i \in ToolAnswer(c) :
          /\ ~fresp[i].ok
          /\ ToolReturn(c, tool[c].id, FALSE, "Failed to create session", 0)
    /\ UNCHANGED <<sessions, sessVars, factVars, lifeVars, pureVars>>

\* The handler stores the session reference under the session_id: the write
\* of the map starts ...
CreateSession_Store(c) ==
    /\ tool[c].pc = "await"
    /\ \E i \in ToolAnswer(c) : fresp[i].ok
    /\ MapAccess(c)
    /\ tool' = [tool EXCEPT ![c].pc = "storing"]
    /\ UNCHANGED <<sessions, toolResults, sessVars, factVars, pureVars>>
    /\ UNCHANGED <<quit, connCloses, cleanups, stopCall, stops,
                   serviceStopped>>

\* ... and ends, and the handler reports "Created debugging session".
CreateSession_Stored(c) ==
    /\ tool[c].pc = "storing"
    /\ \E i \in ToolAnswer(c) :
          /\ sessions' = Store(sessions, tool[c].id, fresp[i].resp.Session)
          /\ ToolReturn(c, tool[c].id, TRUE, "Created debugging session",
                        fresp[i].resp.Session)
    /\ UNCHANGED <<sessVars, factVars, lifeVars, pureVars>>

McpInit == FactoryInit

\* The MCP server of cmd/tui, on the daemon StartDaemon starts (factory
\* newDebugger(System)). Tool handlers run concurrently, one per caller; the
\* debugger actor serves their commands.
McpNext ==
    \/ \E c \in Callers, id \in SessionNames : Alive /\ CreateSession_Ask(c, id)
    \/ \E c \in Callers : Alive /\ CreateSession_Failed(c)
    \/ \E c \in Callers : Alive /\ CreateSession_Store(c)
    \/ \E c \in Callers : Alive /\ CreateSession_Stored(c)
    \/ Alive /\ DispatchDebugger
    \/ \E c \in Callers, ok \in BOOLEAN : Alive /\ debugger_NewSession(c, ok)
    \/ \E c \in Callers : Alive /\ debugger_Register(c)

McpSpec == McpInit /\ [][McpNext]_vars

\* -------------------------------------------------------------- two sessions
\* Two sessions, created by the factory's first two commands; each NewSession
\* made a connection, a quit channel and three channels of its own and
\* started a readLoop of its own, and each session was registered as an actor
\* of its own.
TwoSessions == {1, 2}

\* Each session is driven by a caller of its own.
Driver(s) == IF s = 1 THEN "c1" ELSE "c2"

IndependenceInit ==
    /\ SessionInit
    /\ RestInit
    /\ started = TwoSessions
    /\ nextSessionID = 2
    /\ receptionist = [k \in {SessionID(1), SessionID(2)} |-> <<k[2]>>]
    /\ cmdSeq = 2
    /\ fmailbox = <<>>
    /\ fcall = [c \in Callers |-> IdleCmd]
    /\ fresp = [n \in TwoSessions |->
                  [n |-> n, cmd |-> "CreateSessionCmd", ok |-> TRUE,
                   resp |-> CreateSessionResp(n), id |-> SessionID(n),
                   ref |-> n]]

\* A step of session s: of its driver, its actor, its readLoop or its
\* backend. The driver has one call in flight at a time, so readLoop never
\* blocks at a send.
SessionStep(s) ==
    \/ TypedOperation(s, Driver(s))
    \/ Dispatch(s)
    \/ \E ok \in BOOLEAN : Receive_Write(s, Driver(s), ok)
    \/ RecvResponse(s, Driver(s))
    \/ RecvError(s, Driver(s))
    \/ readLoop_Read(s)
    \/ BackendRespond(s)
    \/ \E m \in {GarbageMsg, EOFMsg} : BackendEnd(s, m)

IndependenceNext == \E s \in SessionRefs : SessionStep(s)

\* The Go scheduler runs every goroutine that can run (the actor's, the
\* readLoop's, the one blocked in Await), and a backend whose output has not
\* ended answers the requests it was sent.
SessionFairness(s) ==
    /\ WF_vars(Dispatch(s))
    /\ WF_vars(\E ok \in BOOLEAN : Receive_Write(s, Driver(s), ok))
    /\ WF_vars(RecvResponse(s, Driver(s)))
    /\ WF_vars(RecvError(s, Driver(s)))
    /\ WF_vars(readLoop_Read(s))
    /\ WF_vars(readLoop_Forward(s))
    /\ WF_vars(BackendRespond(s))

IndependenceSpec ==
    /\ IndependenceInit
    /\ [][IndependenceNext]_vars
    /\ \A s \in TwoSessions : SessionFairness(s)

\* ----------------------------------------------------- readLoop and Stop
\* What a Read interrupted by s.conn.Close() leads to: a decode error that is
\* not io.EOF.
ClosedMsg == Msg("closed", 0, "-")

\* The connection has been closed: a Read blocked on it, or started on it,
\* returns an error.
ReadUnblocked_Never(s) == FALSE
ReadUnblocked(s) == connCloses[s] > 0

\* readLoop returns.
ReadLoopReturn(s, m) ==
    rl' = [rl EXCEPT ![s] = [pc |-> "done", msg |-> m, during |-> rl[s].during]]

\* case <-s.quit at the head of the loop: readLoop returns. A loop at "read"
\* is either here or already blocked inside dap.ReadProtocolMessage, where
\* the closed quit channel does not reach it.
readLoop_QuitAtHead(s) ==
    /\ s \in started
    /\ rl[s].pc = "read"
    /\ quit[s] = "closed"
    /\ ReadLoopReturn(s, NoMsg)
    /\ UNCHANGED <<started, mailbox, call, reqSeq, conn, writes, answered,
                   unsolicited, stream, wire, responses, events, errors,
                   returned, factVars, restVars>>

\* case <-s.quit in the select of a send that is blocked on a full channel,
\* or that could also go through: readLoop drops the message and returns.
readLoop_QuitAtSend(s) ==
    /\ s \in started
    /\ rl[s].pc \in {"pushResp", "pushEvent", "pushErr"}
    /\ quit[s] = "closed"
    /\ ReadLoopReturn(s, NoMsg)
    /\ UNCHANGED <<started, mailbox, call, reqSeq, conn, writes, answered,
                   unsolicited, stream, wire, responses, events, errors,
                   returned, factVars, restVars>>

\* readLoop decodes a message with quit closed and the select of its send
\* takes case <-s.quit although the channel has room.
readLoop_ReadThenQuit(s) ==
    /\ s \in started
    /\ rl[s].pc = "read"
    /\ quit[s] = "closed"
    /\ wire[s] # <<>>
    /\ Classify(Head(wire[s])) \in {"pushResp", "pushEvent", "pushErr"}
    /\ wire' = [wire EXCEPT ![s] = Tail(@)]
    /\ ReadLoopReturn(s, NoMsg)
    /\ UNCHANGED <<started, mailbox, call, reqSeq, conn, writes, answered,
                   unsolicited, stream, responses, events, errors, returned,
                   factVars, restVars>>

\* The Read on the closed connection fails with an error other than io.EOF;
\* what the connection still held is lost. Between sending the error, if the
\* errors channel has room, and case <-s.quit (Stop closed quit before the
\* connection) the select takes either, and readLoop returns.
readLoop_ReadClosed(s) ==
    /\ s \in started
    /\ rl[s].pc = "read"
    /\ ReadUnblocked(s)
    /\ \/ /\ CanForward(s, "pushErr")
          /\ errors' = [errors EXCEPT ![s] = Forwarded(s, "pushErr", ClosedMsg).err]
       \/ /\ quit[s] = "closed"
          /\ UNCHANGED errors
    /\ ReadLoopReturn(s, ClosedMsg)
    /\ UNCHANGED <<started, mailbox, call, reqSeq, conn, writes, answered,
                   unsolicited, stream, wire, responses, events, returned,
                   factVars, restVars>>

\* The connection is usable: nothing has closed it.
ConnOpen(s) == connCloses[s] = 0

\* The session Init starts.
Running == {1}

\* One goroutine makes the Calls on s, one after the other: it makes the next
\* once Await has returned for the one before, with what Receive returned or,
\* the context it gave to Await done, with ctx.Err(); the request it gave up
\* is then still with the actor.
AwaitReturned(s) ==
    \A c \in Callers : call[s][c].pc = "idle" \/ call[s][c].ctx = "done"
NextCall(s) == IF call[s]["c1"].pc = "idle" THEN "c1" ELSE "c2"
AskInTurn(s) == AwaitReturned(s) /\ AskWithContext(s, NextCall(s))

StopInit == Init

\* One session with a caller that makes Calls and may give up waiting for
\* them, and an actor system that may be shut down, which ends the Calls that
\* wait and leaves their responses to come: enough of them to fill the
\* responses channel and block the loop behind it; a backend that answers,
\* emits enough events to do the same with the events channel, and may end
\* its output. The caller Stops the session once and starts no Call after
\* that. Writes to a closed connection fail, and nothing the backend sends
\* reaches it.
StopNext ==
    \/ \E s \in Running :
          Alive /\ quit[s] = "open" /\ reqSeq[s] < ChanCap + 1
                /\ AskInTurn(s)
    \/ \E s \in Running, c \in Callers : Alive /\ CancelContext(s, c)
    \/ Alive /\ ActorSystem_Shutdown
    \/ \E s \in Running : Alive /\ Dispatch(s)
    \/ \E s \in Running, c \in Callers :
          Alive /\ Receive_Write(s, c, ConnOpen(s))
    \/ \E s \in Running, c \in Callers : Alive /\ RecvResponse(s, c)
    \/ \E s \in Running, c \in Callers : Alive /\ RecvEvent(s, c)
    \/ \E s \in Running, c \in Callers : Alive /\ RecvError(s, c)
    \/ \E s \in Running, c \in Callers : Alive /\ CtxDone(s, c)
    \/ \E s \in Running : Alive /\ readLoop_Read(s)
    \/ \E s \in Running : Alive /\ readLoop_Forward(s)
    \/ \E s \in Running : Alive /\ readLoop_QuitAtHead(s)
    \/ \E s \in Running : Alive /\ readLoop_QuitAtSend(s)
    \/ \E s \in Running : Alive /\ readLoop_ReadThenQuit(s)
    \/ \E s \in Running : Alive /\ readLoop_ReadClosed(s)
    \/ \E s \in Running : Alive /\ ConnOpen(s) /\ BackendRespond(s)
    \/ \E s \in Running :
          Alive /\ ConnOpen(s)
                /\ BackendEmitUpTo(s, AnyEvent, ChanCap + 1)
    \/ \E s \in Running, m \in {GarbageMsg, EOFMsg} :
          Alive /\ ConnOpen(s) /\ BackendEnd(s, m)
    \/ \E s \in Running : stops = 0 /\ Stop_CloseQuit(s, Driver(s))
    \/ \E s \in Running : Stop_CloseConn(s, Driver(s))
    \/ \E s \in Running : Stop_Cleanup(s, Driver(s))

\* The Go scheduler runs the readLoop goroutine whenever it can take a step
\* it cannot avoid (a decode, a send, a failed Read, the quit case of a
\* send), and the goroutine in Stop goes on to its next statement.
StopFairness ==
    \A s \in Running :
        /\ WF_vars(Alive /\ readLoop_Read(s))
        /\ WF_vars(Alive /\ readLoop_Forward(s))
        /\ WF_vars(Alive /\ readLoop_QuitAtSend(s))
        /\ WF_vars(Alive /\ readLoop_ReadClosed(s))
        /\ WF_vars(Stop_CloseConn(s, Driver(s)))

StopSpec == StopInit /\ [][StopNext]_vars /\ StopFairness

\* --------------------------------------------------------- sequential Calls
\* One session and one caller, whose Calls follow one another: each is made
\* with a context that can be cancelled, and the next is made once Await has
\* returned for the one before. The actor system may be shut down.
SequentialInit == Init

SequentialNext ==
    \/ \E s \in Running : AskInTurn(s)
    \/ \E s \in Running, c \in Callers : CancelContext(s, c)
    \/ ActorSystem_Shutdown
    \/ \E s \in Running : Dispatch(s)
    \/ \E s \in Running, c \in Callers, ok \in BOOLEAN :
          Receive_Write(s, c, ok)
    \/ \E s \in Running, c \in Callers : Receive_Select(s, c)
    \/ \E s \in Running : readLoop_Read(s)
    \/ \E s \in Running : readLoop_Forward(s)
    \/ \E s \in Running : BackendRespond(s)
    \/ \E s \in Running : BackendEmit(s, AnyEvent)
    \/ \E s \in Running : BackendEmit(s, OtherMsg)
    \/ \E s \in Running, m \in {GarbageMsg, EOFMsg} : BackendEnd(s, m)

SequentialSpec == SequentialInit /\ [][SequentialNext]_vars

\* ------------------------------------------------- a backend that runs ahead
\* The n-th event the backend sends: a dap.Event carries its sequence number.
SeqEvent(n) == Msg("event", n, "-")

\* The backend sends its next event; it may send more of them than the
\* events channel holds, whether a Call is in flight or not.
BackendEmitNext(s) ==
    BackendEmitUpTo(s, SeqEvent(unsolicited[s] + 1), ChanCap + 2)

BackpressureInit == Init

\* One session and one caller, whose Calls end when the actor system is shut
\* down and so leave their responses behind, and a backend that sends events
\* on its own.
BackpressureNext ==
    \/ \E s \in Running : AskInTurn(s)
    \/ \E s \in Running, c \in Callers : CancelContext(s, c)
    \/ ActorSystem_Shutdown
    \/ \E s \in Running : Dispatch(s)
    \/ \E s \in Running, c \in Callers, ok \in BOOLEAN :
          Receive_Write(s, c, ok)
    \/ \E s \in Running, c \in Callers : Receive_Select(s, c)
    \/ \E s \in Running : readLoop_Read(s)
    \/ \E s \in Running : readLoop_Forward(s)
    \/ \E s \in Running : BackendRespond(s)
    \/ \E s \in Running : BackendEmitNext(s)
    \/ \E s \in Running, m \in {GarbageMsg, EOFMsg} : BackendEnd(s, m)

BackpressureSpec == BackpressureInit /\ [][BackpressureNext]_vars

\* --------------------------------------------- events between the responses
\* An event the backend sends after it has sent n responses.
EventAfter(n) == Msg("event", n, "-")

\* The backend sends an event: before the response to a request, or after.
BackendEmitBetween(s) ==
    BackendEmitUpTo(s, EventAfter(answered[s]), ChanCap + 1)

InterleavingInit == Init

\* One session and one caller; the backend answers the requests and sends
\* events in between, until its output ends.
InterleavingNext ==
    \/ \E s \in Running : AskInTurn(s)
    \/ \E s \in Running, c \in Callers : CancelContext(s, c)
    \/ ActorSystem_Shutdown
    \/ \E s \in Running : Dispatch(s)
    \/ \E s \in Running, c \in Callers, ok \in BOOLEAN :
          Receive_Write(s, c, ok)
    \/ \E s \in Running, c \in Callers : Receive_Select(s, c)
    \/ \E s \in Running : readLoop_Read(s)
    \/ \E s \in Running : readLoop_Forward(s)
    \/ \E s \in Running : BackendRespond(s)
    \/ \E s \in Running : BackendEmitBetween(s)
    \/ \E s \in Running, m \in {GarbageMsg, EOFMsg} : BackendEnd(s, m)

InterleavingSpec == InterleavingInit /\ [][InterleavingNext]_vars

\* -------------------------------------------------- the get_variables tool
\* The scopes of a stack frame, and the lists of them a ScopesResponse may
\* carry; a scope's VariablesReference is the scope's name here.
ScopeNames == {"Locals", "Arguments", "Globals"}

\* The frames the tool is called for.
FrameIDs == {1}

\* What the handler knows of a scope once it is through with it: its name
\* and whether GetVariableList succeeded on its VariablesReference.
ScopeReplies == [Name : ScopeNames, listOk : BOOLEAN]

\* The variables GetVariableList returns for a scope.
VariablesOf(scope) == <<[Name |-> "x", Scope |-> scope.Name]>>

\* The loop over the scopes: allVariables[scope.Name] = variables, except
\* where GetVariableList failed, which the loop passes over.
RECURSIVE AllVariables(_)
AllVariables(scopes) ==
    IF scopes = <<>> THEN <<>>
    ELSE LET before == AllVariables(SubSeq(scopes, 1, Len(scopes) - 1))
             scope == scopes[Len(scopes)]
         IN IF scope.listOk
              THEN Store(before, scope.Name, VariablesOf(scope))
              ELSE before

\* What the get_variables handler returns.
GetVariablesResult(id, scopesOk, scopes) ==
    IF id \notin DOMAIN sessions
      THEN [IsError |-> TRUE, text |-> "Session not found",
            variables |-> <<>>]
      ELSE IF ~scopesOk
        THEN [IsError |-> TRUE, text |-> "Failed to get variable scopes",
              variables |-> <<>>]
        ELSE [IsError |-> FALSE, text |-> "Variables",
              variables |-> AllVariables(scopes)]

\* The handler of caller c returns.
GetVariablesReturn(c, id, scopesOk, scopes) ==
    /\ toolResults' = Append(toolResults,
                             [id |-> id, scopesOk |-> scopesOk,
                              scopes |-> scopes,
                              result |-> GetVariablesResult(id, scopesOk,
                                                            scopes)])
    /\ tool' = [tool EXCEPT ![c] = IdleTool]
    /\ UNCHANGED <<sessions, sessVars, factVars, lifeVars, pureVars>>

\* GetScopes and GetVariables, called by the handler of c: build the request
\* and Ask the session with context.Background(); the handler then waits in
\* Await, at pc, for what Receive returns for request n.
ToolAsk(c, pc, op, request) ==
    LET s == sessions[tool'[c].id]
    IN /\ Send(s, c, TRUE, TypedOperationCtx)
       /\ ops' = [ops EXCEPT ![s] =
                    Append(@, [op |-> op, request |-> request])]
       /\ tool'[c].pc = pc
       /\ tool'[c].n = reqSeq[s] + 1
       /\ UNCHANGED <<asked, apiCall, sessions, toolResults>>

\* Receive has returned for the request the handler of c waits for; what the
\* typed operation makes of it.
ToolAwaited(c) ==
    \E i \in 1..Len(returned[sessions[tool[c].id]]) :
        returned[sessions[tool[c].id]][i].req = tool[c].n
ToolReply(c) ==
    LET s == sessions[tool[c].id]
    IN Reply(s, CHOOSE i \in 1..Len(returned[s]) :
                    returned[s][i].req = tool[c].n)

\* get_variables is called with session_id id and frame_id frameID: the
\* handler looks the session up and, if it is there, calls
\* GetVariableScopes, whose GetScopes Asks the session.
GetVariables(c, id, frameID) ==
    /\ tool[c] = IdleTool
    /\ IF id \notin DOMAIN sessions
         THEN GetVariablesReturn(c, id, FALSE, <<>>)
         ELSE /\ tool' = [tool EXCEPT ![c] =
                            [pc |-> "scopes", id |-> id,
                             n |-> reqSeq[sessions[id]] + 1,
                             todo |-> <<>>, done |-> <<>>]]
              /\ ToolAsk(c, "scopes", "GetScopes",
                         [command |-> "scopes", frameId |-> frameID])

\* GetScopes returns: with an error, and the handler returns its failure; or
\* with the scopes of the response, and the handler enters its loop. A frame
\* has no more scopes than requests are left for them.
GetVariables_Scopes(c, scopes) ==
    /\ tool[c].pc = "scopes"
    /\ ToolAwaited(c)
    /\ IF ToolReply(c) # "expected"
         THEN GetVariablesReturn(c, tool[c].id, FALSE, <<>>)
         ELSE /\ Len(scopes) <= MaxReqs - reqSeq[sessions[tool[c].id]]
              /\ tool' = [tool EXCEPT ![c].pc = "loop", ![c].todo = scopes]
              /\ UNCHANGED <<sessions, toolResults, sessVars, factVars,
                             lifeVars, pureVars>>

\* The head of the loop: GetVariableList on the next scope, whose
\* GetVariables Asks the session; after the last scope the handler returns
\* allVariables.
GetVariables_Loop(c) ==
    /\ tool[c].pc = "loop"
    /\ IF tool[c].todo = <<>>
         THEN GetVariablesReturn(c, tool[c].id, TRUE, tool[c].done)
         ELSE /\ tool' = [tool EXCEPT ![c].pc = "variables",
                            ![c].n = reqSeq[sessions[tool[c].id]] + 1]
              /\ ToolAsk(c, "variables", "GetVariables",
                         [command |-> "variables",
                          variablesReference |-> Head(tool[c].todo)])

\* GetVariables returns: with an error the loop passes over the scope, else
\* it keeps the variables of the scope.
GetVariables_List(c) ==
    /\ tool[c].pc = "variables"
    /\ ToolAwaited(c)
    /\ tool' = [tool EXCEPT
                  ![c].pc = "loop",
                  ![c].todo = Tail(@),
                  ![c].done = Append(@, [Name |-> Head(tool[c].todo),
                                         listOk |-> ToolReply(c) = "expected"])]
    /\ UNCHANGED <<sessions, toolResults, sessVars, factVars, lifeVars,
                   pureVars>>

\* A server that holds the session Init starts, as "a", and no tool handler
\* running.
GetVariablesInit ==
    /\ SessionInit /\ FirstSession /\ LifeInit /\ RetryIdle /\ LaunchIdle
    /\ ApiIdle
    /\ sessions = Store(<<>>, "a", 1)
    /\ tool = [c \in Callers |-> IdleTool]
    /\ toolResults = <<>>

\* The tool is called once; the session's actor, its readLoop and its
\* backend run while the handler waits. The backend answers each request
\* with a response or an error response, or ends its output; it sends no
\* events, so no channel is ever full and readLoop never blocks at a send.
GetVariablesNext ==
    \/ \E c \in Callers, id \in SessionNames, frameID \in FrameIDs :
          /\ toolResults = <<>>
          /\ \A d \in Callers : tool[d] = IdleTool
          /\ GetVariables(c, id, frameID)
    \/ \E c \in Callers, scopes \in SeqsUpTo(ScopeNames, MaxScopes) :
          GetVariables_Scopes(c, scopes)
    \/ \E c \in Callers : GetVariables_Loop(c)
    \/ \E c \in Callers : GetVariables_List(c)
    \/ \E s \in SessionRefs : Dispatch(s)
    \/ \E s \in SessionRefs, c \in Callers, ok \in BOOLEAN :
          Receive_Write(s, c, ok)
    \/ \E s \in SessionRefs, c \in Callers : RecvResponse(s, c)
    \/ \E s \in SessionRefs, c \in Callers : RecvError(s, c)
    \/ \E s \in SessionRefs : readLoop_Read(s)
    \/ \E s \in SessionRefs : BackendRespond(s)
    \/ \E s \in SessionRefs : BackendRespondError(s)
    \/ \E s \in SessionRefs, m \in {GarbageMsg, EOFMsg} : BackendEnd(s, m)

GetVariablesSpec == GetVariablesInit /\ [][GetVariablesNext]_vars

\* ------------------------------------------- the factory of the service
\* The system field of the debugger: newDebugger(system) sets it,
\* NewDebugger() leaves it nil.
DebuggerSystem(constructor) ==
    IF constructor = "newDebugger" THEN "system" ELSE "nil"

\* The rest of a successful creation in a debugger built by constructor:
\* d.nextSessionID++, then actor.RegisterWithSystem(d.system, ...) and
\* d.system.Receptionist(), which dereference d.system: with a nil system
\* that is a nil pointer dereference, a run-time panic in the actor's
\* goroutine; Receive returns nothing.
debugger_RegisterBuiltBy(c, constructor) ==
    IF DebuggerSystem(constructor) = "nil"
      THEN /\ fcall[c].pc = "register"
           /\ nextSessionID' = AllocSessionID(nextSessionID)
           /\ panicked' = TRUE
           /\ UNCHANGED <<receptionist, fmailbox, fcall, cmdSeq, fresp,
                          sessVars, quit, connCloses, cleanups, stopCall,
                          stops, serviceStopped, mcpVars, pureVars>>
      ELSE debugger_Register(c)

ServiceInit == FactoryInit

\* MCPDebugService.Start registers the Receive of debugger.NewDebugger();
\* callers send it commands while the process runs, and the service may be
\* stopped.
ServiceNext ==
    \/ \E c \in Callers, cmd \in DebuggerCommands :
          Alive /\ AskDebugger(c, cmd)
    \/ Alive /\ DispatchDebugger
    \/ \E c \in Callers, ok \in BOOLEAN : Alive /\ debugger_NewSession(c, ok)
    \/ \E c \in Callers : Alive /\ debugger_RegisterBuiltBy(c, "NewDebugger")
    \/ \E c \in Callers : Alive /\ debugger_Unknown(c)
    \/ MCPDebugService_Stop

ServiceSpec == ServiceInit /\ [][ServiceNext]_vars

\* ================================================================ the claims
\* The results Receive has returned on session s, as indices of the log.
Results(s) == 1..Len(returned[s])

\* C1 (as claimed): every Call that returns a response returns the response
\* the backend sent for that Call's own request.
C1_OwnResponseAlways ==
    \A s \in SessionRefs : \A i \in Results(s) :
        returned[s][i].kind = "ok" =>
            /\ returned[s][i].msg.type = "response"
            /\ returned[s][i].msg.req = returned[s][i].req

\* C1 (amended): a Call that returns a response returns the response to its
\* own request provided every earlier Call on the session whose request was
\* written returned a response (none ended by cancellation or by a read-loop
\* error with its request unanswered).
C1_OwnResponse ==
    \A s \in SessionRefs : \A i \in Results(s) :
        ( /\ returned[s][i].kind = "ok"
          /\ \A j \in 1..(i - 1) :
                returned[s][j].sent => returned[s][j].kind = "ok" )
        => /\ returned[s][i].msg.type = "response"
           /\ returned[s][i].msg.req = returned[s][i].req

\* Two sequential Calls have each returned the response to their own request,
\* the first after absorbing an event.
C1_Witness ==
    \E s \in SessionRefs :
        /\ Len(returned[s]) = 2
        /\ \A i \in 1..2 : /\ returned[s][i].kind = "ok"
                           /\ returned[s][i].msg = ResponseMsg(i)
                           /\ returned[s][i].req = i
        /\ returned[s][1].absorbed = 1

Last(seq) == seq[Len(seq)]

\* C2: while a Call waits, an event that is taken from the events channel is
\* absorbed: the Call goes on waiting and returns nothing; the wait ends only
\* with a response (the result), a read-loop error or a cancelled context,
\* and the result of a Call is never an event.
C2_EventsAbsorbed ==
    /\ [](\A s \in SessionRefs : \A i \in Results(s) :
            /\ returned[s][i].kind \in {"ok", "err", "cancel", "writeErr"}
            /\ returned[s][i].kind = "ok" =>
                  returned[s][i].msg.type = "response")
    /\ [][\A s \in SessionRefs :
            /\ Len(events'[s]) < Len(events[s]) =>
                  /\ returned'[s] = returned[s]
                  /\ \A c \in Callers : call[s][c].pc = "wait" =>
                        /\ call'[s][c].pc = "wait"
                        /\ call'[s][c].absorbed = call[s][c].absorbed + 1
            /\ \A c \in Callers :
                  (call[s][c].pc = "wait" /\ call'[s][c].pc # "wait") =>
                      /\ Len(returned'[s]) = Len(returned[s]) + 1
                      /\ Last(returned'[s]).req = call[s][c].req
                      /\ events'[s] = events[s]
                      /\ \/ /\ Last(returned'[s]).kind = "ok"
                            /\ responses[s] # <<>>
                            /\ Last(returned'[s]).msg = Head(responses[s])
                         \/ /\ Last(returned'[s]).kind = "err"
                            /\ errors[s] # <<>>
                         \/ /\ Last(returned'[s]).kind = "cancel"
                            /\ ActorCtx = "done"
         ]_vars

\* A Call has returned its response after absorbing an event on the way.
C2_Witness ==
    \E s \in SessionRefs : \E i \in Results(s) :
        /\ returned[s][i].kind = "ok"
        /\ returned[s][i].absorbed >= 1
        /\ returned[s][i].msg = ResponseMsg(returned[s][i].req)

\* C3: at most one invocation of Session.Receive runs on a session at any
\* time, also when several callers Ask it concurrently: a request is written
\* only when no other Call on the session is between its write and its
\* return.
C3_OneInFlight ==
    \A s \in SessionRefs :
        /\ Cardinality(InReceive(s)) <= 1
        /\ Len(conn[s]) <= Len(returned[s]) + Cardinality(InReceive(s))

\* Two callers have asked the same session; one Call waits for its response
\* while the other request sits in the mailbox.
C3_Witness ==
    \E s \in SessionRefs : \E c, d \in Callers :
        /\ c # d
        /\ call[s][c].pc = "wait"
        /\ call[s][d].pc = "queued"
        /\ mailbox[s] = <<d>>

\* C4 (as claimed): a Call whose context is already done when it is issued,
\* and whose request was written, returns the cancellation error, whatever
\* is buffered on the channels.
C4_CancelledCallReturnsCancel ==
    \A s \in SessionRefs : \A i \in Results(s) :
        (returned[s][i].ctx0 = "done" /\ returned[s][i].sent) =>
            returned[s][i].kind = "cancel"

\* C5 (as claimed): the Call that was in flight when the read loop hit a
\* decode error returns that error (or, at most, its own cancellation).
C5_InFlightCallReturnsError ==
    \A s \in SessionRefs : \A i \in Results(s) :
        (rl[s].during # 0 /\ returned[s][i].req = rl[s].during) =>
            returned[s][i].kind \in {"err", "cancel"}

\* Errors the read loop of s has pushed: those still buffered and those a
\* Call has returned.
ErrorsPushed(s) ==
    Len(errors[s]) +
    Cardinality({i \in Results(s) : returned[s][i].kind = "err"})

\* C5 (amended): on a decode error other than end-of-stream the read loop
\* pushes that one error and terminates, pushing nothing after it; a Call
\* that waits with the error buffered, no response or event buffered and its
\* context not done returns that error by its next step; a Call for which a
\* response was buffered first, or whose context is done, may return that
\* instead, and the error then stays buffered for the next Call.
C5_ErrorPushedOnceAndReturned ==
    /\ [](\A s \in SessionRefs :
            /\ ErrorsPushed(s) <= 1
            /\ rl[s].pc = "pushErr" => ErrorsPushed(s) = 0
            /\ (rl[s].pc = "done" /\ rl[s].msg = GarbageMsg) <=>
                  ErrorsPushed(s) = 1
            /\ \A i \in Results(s) : returned[s][i].kind = "err" =>
                  returned[s][i].msg = ReadError)
    /\ [][\A s \in SessionRefs :
            /\ rl[s].pc = "done" =>
                  /\ rl'[s] = rl[s]
                  /\ Len(responses'[s]) <= Len(responses[s])
                  /\ Len(events'[s]) <= Len(events[s])
                  /\ Len(errors'[s]) <= Len(errors[s])
            /\ \A c \in Callers :
                  ( /\ call[s][c].pc = "wait"
                    /\ errors[s] # <<>>
                    /\ responses[s] = <<>>
                    /\ events[s] = <<>>
                    /\ ActorCtx # "done"
                    /\ call'[s][c] # call[s][c]
                    /\ call'[s][c].ctx = call[s][c].ctx ) =>
                      /\ Last(returned'[s]).kind = "err"
                      /\ Last(returned'[s]).req = call[s][c].req
                      /\ errors'[s] = <<>>
         ]_vars

\* The read loop hit a decode error while a Call was in flight, and that Call
\* returned the error.
C5_Witness ==
    \E s \in SessionRefs : \E i \in Results(s) :
        /\ rl[s].pc = "done"
        /\ rl[s].msg = GarbageMsg
        /\ rl[s].during = returned[s][i].req
        /\ returned[s][i].kind = "err"
        /\ returned[s][i].msg = ReadError

\* C6: a Call hands its request to the transport exactly once; when the write
\* fails it returns the write error by that same step, leaving the request
\* unwritten and the channels untouched; only a Call whose write succeeded
\* waits on the channels.
C6_WriteOnceNoRetry ==
    /\ [](\A s \in SessionRefs :
            /\ \A r \in 1..MaxReqs : writes[s][r] <= 1
            /\ \A c \in Callers :
                  /\ call[s][c].pc = "wait" =>
                        (call[s][c].sent /\ writes[s][call[s][c].req] = 1)
                  /\ call[s][c].pc = "write" => writes[s][call[s][c].req] = 0
            /\ \A i \in Results(s) :
                  /\ writes[s][returned[s][i].req] = 1
                  /\ returned[s][i].kind = "writeErr" <=> ~returned[s][i].sent
                  /\ returned[s][i].sent <=>
                        \E k \in 1..Len(conn[s]) : conn[s][k] = returned[s][i].req)
    /\ [][\A s \in SessionRefs : \A c \in Callers :
            (call[s][c].pc = "write" /\ call'[s][c].pc # "write"
                /\ conn'[s] = conn[s]) =>
                /\ Len(returned'[s]) = Len(returned[s]) + 1
                /\ Last(returned'[s]).kind = "writeErr"
                /\ Last(returned'[s]).req = call[s][c].req
                /\ responses'[s] = responses[s]
                /\ events'[s] = events[s]
                /\ errors'[s] = errors[s]
         ]_vars

\* A write failed while a response was buffered: the Call returned the write
\* error and the response is still on the channel.
C6_Witness ==
    \E s \in SessionRefs :
        /\ returned[s] # <<>>
        /\ Last(returned[s]).kind = "writeErr"
        /\ responses[s] # <<>>

\* C7 (as claimed): every Call a typed operation makes carries a context that
\* can be cancelled or that expires.
C7_TypedCallsHaveDeadline ==
    \A s \in SessionRefs : \A c \in Callers :
        (call[s][c].pc # "idle" /\ call[s][c].typed) =>
            call[s][c].ctx \in {"live", "done"}

\* The successful creations among the factory's responses.
Created == {i \in 1..Len(fresp) : fresp[i].ok}

\* C8: whatever commands the factory handles, concurrently sent and failed
\* ones included, every session it creates gets an identifier session-N that
\* no other session has, N growing in creation order, and is the one actor
\* registered under that identifier.
C8_UniqueIncreasingIDs ==
    /\ \A i \in Created :
          /\ fresp[i].id[1] = "session-"
          /\ fresp[i].id[2] >= 1
          /\ fresp[i].id \in DOMAIN receptionist
          /\ \A j \in Created : i < j =>
                /\ fresp[i].id[2] < fresp[j].id[2]
                /\ fresp[i].ref # fresp[j].ref
    /\ \A k \in DOMAIN receptionist : Len(receptionist[k]) = 1

\* Two sessions were created with a failed creation between them.
C8_Witness ==
    /\ Len(fresp) = 3
    /\ fresp[1].ok /\ fresp[1].id = SessionID(1)
    /\ ~fresp[2].ok /\ fresp[2].cmd \in CreatingCmds
    /\ fresp[3].ok /\ fresp[3].id = SessionID(2) /\ fresp[3].ref = 3

\* C9: when NewSession fails the command returns an error and, by that step,
\* neither the identifier counter nor the registered sessions nor the set of
\* sessions change; the counter and the registry count the successes only.
C9_FailedCreationChangesNothing ==
    /\ [](/\ nextSessionID = Cardinality(Created)
          /\ Cardinality(DOMAIN receptionist) = Cardinality(Created)
          /\ \A i \in 1..Len(fresp) : ~fresp[i].ok =>
                /\ "Err" \in DOMAIN fresp[i].resp
                /\ fresp[i].id = NoID)
    /\ [][(Len(fresp') > Len(fresp) /\ ~Last(fresp').ok) =>
            /\ nextSessionID' = nextSessionID
            /\ receptionist' = receptionist
            /\ started' = started
         ]_vars

\* A creation failed after an earlier one had succeeded.
C9_Witness ==
    /\ Len(fresp) >= 2
    /\ fresp[1].ok
    /\ ~Last(fresp).ok
    /\ Last(fresp).cmd \in CreatingCmds
    /\ Last(fresp).resp = ErrorResp("could not create session")
    /\ nextSessionID = 1

\* C10 (as claimed): the response to a successful creation carries the
\* session's identifier together with its reference, and the identifier
\* resolves in the registry to that same reference.
C10_ResponseCarriesIDAndRef ==
    \A i \in Created :
        /\ "Session" \in DOMAIN fresp[i].resp
        /\ fresp[i].resp.Session = fresp[i].ref
        /\ FindInReceptionist(receptionist, fresp[i].id) = <<fresp[i].ref>>
        /\ "SessionID" \in DOMAIN fresp[i].resp
        /\ fresp[i].resp.SessionID = fresp[i].id

\* C11 (as claimed): every created session has its cleanup (quit closed,
\* transport closed, backend process killed) run exactly once: never more
\* than once, and it has run by the time the owning service has been stopped.
C11_CleanupRunByServiceStop ==
    /\ \A s \in started : connCloses[s] <= 1 /\ cleanups[s] <= 1
    /\ serviceStopped =>
          \A s \in started : /\ quit[s] = "closed"
                             /\ connCloses[s] = 1
                             /\ cleanups[s] = 1

\* C12: a session's transport is closed at most once and its cleanup callback
\* invoked at most once, and only after its quit channel was closed; a call
\* of Stop passes its first statement only if the quit channel was open, and
\* a Stop on a session whose quit channel is already closed panics there,
\* touching neither the transport nor the callback; after the panic nothing
\* more is closed or cleaned up.
C12_SecondStopFailsAtQuit ==
    /\ [](\A s \in SessionRefs :
            /\ connCloses[s] <= 1
            /\ cleanups[s] <= connCloses[s]
            /\ connCloses[s] >= 1 => quit[s] = "closed")
    /\ [][/\ \A s \in SessionRefs : \A c \in Callers :
                (stopCall[s][c] = IdleStop /\ stopCall'[s][c] = "closeConn")
                    => quit[s] = "open" /\ quit'[s] = "closed"
          /\ (stops' = stops + 1 /\ stopCall' = stopCall) =>
                /\ \E s \in started : quit[s] = "closed"
                /\ panicked'
                /\ UNCHANGED <<quit, connCloses, cleanups>>
          /\ panicked => UNCHANGED <<quit, connCloses, cleanups, stopCall>>
         ]_vars

\* A session was stopped once, completely, and a second Stop on it panicked.
C12_Witness ==
    /\ panicked
    /\ stops = 2
    /\ \E s \in started :
          /\ started = {s}
          /\ quit[s] = "closed"
          /\ connCloses[s] = 1
          /\ cleanups[s] = 1
          /\ \A c \in Callers : stopCall[s][c] = IdleStop

\* C13: with a context that is never cancelled RetryWithBackoff invokes the
\* operation until its first success or until MaxAttempts failures: never
\* after a success and never more than MaxAttempts times; a success returns
\* nil at once, after exactly as many invocations as it took; if every
\* attempt fails it returns, after exactly MaxAttempts invocations, the error
\* that reports MaxAttempts and wraps the failure of the last invocation.
C13_UntilSuccessOrMaxAttempts ==
    /\ Len(invocations) <= config.MaxAttempts
    /\ \A i \in 1..(Len(invocations) - 1) : ~invocations[i]
    /\ (invocations # <<>> /\ Last(invocations)) =>
          retryPc = "returned" /\ retryResult = RetryNil
    /\ (retryPc = "returned" /\ retryCtx # "done") =>
          IF invocations # <<>> /\ Last(invocations)
            THEN retryResult = RetryNil
            ELSE /\ Len(invocations) = config.MaxAttempts
                 /\ retryResult.kind = "exhausted"
                 /\ retryResult.attempts = config.MaxAttempts
                 /\ retryResult.wraps = Len(invocations)

\* Three attempts out of three failed and the error reports three attempts
\* and wraps the third failure.
C13_Witness ==
    /\ retryPc = "returned"
    /\ retryCtx # "done"
    /\ config.MaxAttempts = 3
    /\ invocations = <<FALSE, FALSE, FALSE>>
    /\ retryResult = [kind |-> "exhausted", attempts |-> 3, wraps |-> 3]

\* b to the power e.
RECURSIVE Pow(_, _)
Pow(b, e) == IF e = 0 THEN 1 ELSE b * Pow(b, e - 1)

\* The i-th sleep is min(InitialDelay * Multiplier^(i-1), MaxDelay), the
\* multiplier being the fraction m[1]/m[2].
IsCappedExponential(d, i, cfg) ==
    LET n == cfg.InitialDelay * Pow(cfg.Multiplier[1], i - 1)
        q == Pow(cfg.Multiplier[2], i - 1)
    IN IF n <= cfg.MaxDelay * q THEN d * q = n ELSE d = cfg.MaxDelay

\* C14 (as claimed): the delay slept after the i-th failed attempt is
\* min(InitialDelay * Multiplier^(i-1), MaxDelay), and no sleep is longer
\* than MaxDelay, for every RetryConfig.
C14_SleepIsCappedExponential ==
    \A i \in 1..Len(sleeps) :
        /\ sleeps[i] <= config.MaxDelay
        /\ IsCappedExponential(sleeps[i], i, config)

\* C14 (amended): there is one sleep after each failed attempt but the last;
\* the first sleep is InitialDelay, uncapped, and each later sleep is the
\* sleep before it times Multiplier, truncated to a whole duration and then
\* capped at MaxDelay. So no sleep after the first is longer than MaxDelay,
\* none at all when InitialDelay <= MaxDelay, and with InitialDelay <=
\* MaxDelay and a whole Multiplier >= 1 the i-th sleep is
\* min(InitialDelay * Multiplier^(i-1), MaxDelay).
C14_SleepRecurrence ==
    /\ Len(sleeps) \in {Len(invocations) - 1, Len(invocations)}
    /\ Len(sleeps) < config.MaxAttempts \/ sleeps = <<>>
    /\ \A i \in 1..Len(sleeps) :
          /\ ~invocations[i]
          /\ i = 1 => sleeps[i] = config.InitialDelay
          /\ i > 1 =>
                /\ sleeps[i] <= config.MaxDelay
                /\ LET d == Scale(sleeps[i - 1], config.Multiplier)
                   IN sleeps[i] = IF d > config.MaxDelay
                                    THEN config.MaxDelay ELSE d
          /\ config.InitialDelay <= config.MaxDelay =>
                sleeps[i] <= config.MaxDelay
          /\ ( /\ config.InitialDelay <= config.MaxDelay
               /\ config.Multiplier[2] = 1
               /\ config.Multiplier[1] >= 1 ) =>
                IsCappedExponential(sleeps[i], i, config)

\* Two sleeps, the second one capped: 2, then min(2 * 2, 3) = 3.
C14_Witness ==
    /\ config.Multiplier = <<2, 1>>
    /\ config.MaxDelay = 3
    /\ sleeps = <<2, 3>>

\* C15: when the context is done at the head of an attempt or during a
\* backoff sleep, RetryWithBackoff does not invoke the operation again and
\* the only thing it returns is the context's error; it returns that error
\* only for a context that is done.
C15_CancelledStopsRetrying ==
    /\ [](retryResult = RetryCtxErr => retryCtx = "done")
    /\ [][( /\ retryCtx = "done"
            /\ \/ retryPc = "sleep"
               \/ retryPc = "loop" /\ LoopRuns(attempt, config) ) =>
              /\ invocations' = invocations
              /\ retryPc' \in {retryPc, "loop", "returned"}
              /\ (retryPc = "loop" /\ retryPc' # retryPc) =>
                    retryPc' = "returned"
              /\ retryPc' = "returned" => retryResult' = RetryCtxErr
         ]_vars

\* The context was cancelled after the first failure, before the second
\* attempt, and RetryWithBackoff returned the context's error.
C15_Witness ==
    /\ retryResult = RetryCtxErr
    /\ retryCtx = "done"
    /\ invocations = <<FALSE>>
    /\ sleeps # <<>>
    /\ config.MaxAttempts >= 2

\* C16: whenever an attempt to launch the backend fails after its process
\* was started (the address never announced, stdout ended, the timeout
\* elapsed, or the dial attempts exhausted or cancelled), cleanup has run on
\* that process by the time the failure is returned: a process is alive only
\* while its attempt is under way or after that attempt succeeded, and a
\* failed launch leaves none alive.
C16_FailedLaunchLeavesNoProcess ==
    /\ \A k \in 1..DefaultMaxAttempts :
          procs[k] = "running" =>
              /\ k = launchAttempt
              /\ \/ launchPc \in {"waitAddr", "dial"}
                 \/ launchPc = "returned" /\ launchResult.ok
    /\ (launchPc = "returned" /\ ~launchResult.ok) =>
          \A k \in 1..DefaultMaxAttempts : procs[k] # "running"
    /\ (launchPc = "returned" /\ launchResult.ok) =>
          procs[launchAttempt] = "running"

\* The launch failed for good; the first attempt had started a process that
\* never announced its address, the last one a process that could not be
\* dialled in three attempts; both were killed.
C16_Witness ==
    /\ launchPc = "returned"
    /\ ~launchResult.ok
    /\ launchAttempt = DefaultMaxAttempts
    /\ procs[1] = "killed"
    /\ procs[DefaultMaxAttempts] = "killed"
    /\ retryResult.kind = "exhausted"
    /\ Len(invocations) = 3

\* C17: SetBreakpoints, and SetSourceBreakpoints through it, called with an
\* empty list returns the "no breakpoints provided" error, and called with
\* locations in more than one file returns the "same file" error; the step
\* in which it does so hands no request to the session and changes nothing
\* of any session, and no list of either sort ever reaches a session.
C17_InvalidListsSendNothing ==
    /\ [](/\ apiCall # NoCall =>
                /\ apiCall.op \in {"SetBreakpoints", "SetSourceBreakpoints"}
                /\ apiCall.err \in
                      {"no breakpoints provided",
                       "all breakpoints must be for the same file"}
                /\ apiCall.bps = <<>> <=>
                      apiCall.err = "no breakpoints provided"
                /\ (\E i, j \in 1..Len(apiCall.bps) :
                        apiCall.bps[i].File # apiCall.bps[j].File)
                     <=> apiCall.err =
                            "all breakpoints must be for the same file"
          /\ \A s \in SessionRefs : \A n \in 1..Len(ops[s]) :
                /\ ops[s][n].bps # <<>>
                /\ \A i, j \in 1..Len(ops[s][n].bps) :
                      ops[s][n].bps[i].File = ops[s][n].bps[j].File)
    /\ [][apiCall' # apiCall => UNCHANGED <<sessVars, asked, ops>>]_vars

\* While a request set earlier waits for its answer, a call with locations
\* in two files returned the "same file" error and the session was asked
\* nothing more.
C17_Witness ==
    /\ Len(asked) = 1
    /\ reqSeq[1] = 1
    /\ Len(conn[1]) = 1
    /\ returned[1] = <<>>
    /\ apiCall.op = "SetBreakpoints"
    /\ Len(apiCall.bps) = 2
    /\ apiCall.bps[1].File # apiCall.bps[2].File
    /\ apiCall.err = "all breakpoints must be for the same file"

\* C18: each set-breakpoints request handed to a session carries exactly the
\* breakpoints passed to that call, in the caller's order and for that
\* call's file, whatever the earlier calls set.
C18_RequestCarriesThisCallOnly ==
    [][\A s \in SessionRefs : ops'[s] # ops[s] =>
          /\ ops'[s] = Append(ops[s], Last(ops'[s]))
          /\ Len(ops'[s]) = reqSeq'[s]
          /\ Last(asked') = Last(ops'[s]).request
          /\ Len(asked) >= 1 => asked'[Len(asked') - 1] = Last(asked)
          /\ Last(asked').command = "setBreakpoints"
          /\ Last(asked').path = Last(ops'[s]).bps[1].File
          /\ Len(Last(asked').breakpoints) = Len(Last(ops'[s]).bps)
          /\ \A i \in 1..Len(Last(ops'[s]).bps) :
                /\ Last(asked').breakpoints[i].Line = Last(ops'[s]).bps[i].Line
                /\ Last(ops'[s]).bps[i].File = Last(asked').path
      ]_vars

\* Lines 10 and 20 were set for file X and then line 30 for the same file,
\* and both requests were written to the backend: the second holds line 30
\* only.
C18_Witness ==
    /\ conn[1] = <<1, 2>>
    /\ ops[1][1].request =
          [command |-> "setBreakpoints", path |-> "X",
           breakpoints |-> <<[Line |-> 10], [Line |-> 20]>>]
    /\ ops[1][2].request =
          [command |-> "setBreakpoints", path |-> "X",
           breakpoints |-> <<[Line |-> 30]>>]
    /\ ops[1][2].bps = <<[File |-> "X", Line |-> 30]>>
    /\ asked = <<ops[1][1].request, ops[1][2].request>>

\* The calls of LaunchProgram whose requests session s was handed.
Launches(s) == {i \in 1..Len(ops[s]) : ops[s][i].op = "LaunchProgram"}

\* C19 (as claimed): LaunchProgram sets the mode to exec when the target path
\* ends in a pre-built-binary marker (".test", "__debug_bin"), to test when
\* it ends in "_test.go", and to debug in every other case, for every target
\* path and argument list.
C19_ModeFromPathSuffix ==
    \A s \in SessionRefs : \A i \in Launches(s) :
        ops[s][i].request.mode =
            IF \/ HasSuffix(ops[s][i].config.Program, <<".test">>)
               \/ HasSuffix(ops[s][i].config.Program, <<"__debug_bin">>)
              THEN "exec"
              ELSE IF HasSuffix(ops[s][i].config.Program, <<"_test", ".go">>)
                THEN "test"
                ELSE "debug"

\* C20 (as claimed): in debug and test modes, whenever none of the caller's
\* build flags disables optimization (none contains "-N -l"), the launch
\* request carries the injected "-gcflags", "all=-N -l".
C20_DebugFlagsInjected ==
    \A s \in SessionRefs : \A n \in Launches(s) :
        ( /\ ops[s][n].request.mode \in {"debug", "test"}
          /\ \A i \in 1..Len(ops[s][n].config.BuildFlags) :
                ~Contains(ops[s][n].config.BuildFlags[i], <<"-N -l">>) ) =>
            /\ "buildFlags" \in DOMAIN ops[s][n].request
            /\ Contains(ops[s][n].request.buildFlags, DebugFlags)

\* C21 (as claimed): every typed operation the backend answers with an error
\* response returns an error that carries the backend's message and numeric
\* error id.
C21_ErrorResponseSurfaced ==
    \A s \in SessionRefs : \A i \in Results(s) :
        ( /\ returned[s][i].kind = "ok"
          /\ returned[s][i].msg = ErrorResponseMsg(returned[s][i].req) )
        => /\ DOMAIN OperationError(s, i) = {"text", "format", "id"}
           /\ OperationError(s, i).format = ErrorBody.Format
           /\ OperationError(s, i).id = ErrorBody.Id

\* C22: after a typed operation has failed because the backend answered with
\* an error response, the session is still usable: the error response ended
\* neither the read loop nor anything else of the session, and the next
\* sequential Call hands its request to the transport and, when it returns a
\* response, returns the response to that request.
C22_UsableAfterErrorResponse ==
    \A s \in SessionRefs :
        /\ rl[s].pc = "done" => stream[s] # "open"
        /\ errors[s] # <<>> => stream[s] = "garbage"
        /\ \A i \in Results(s) :
              ( /\ i > 1
                /\ returned[s][i - 1].kind = "ok"
                /\ returned[s][i - 1].msg =
                       ErrorResponseMsg(returned[s][i - 1].req)
                /\ OperationError(s, i - 1).text # ""
                /\ \A j \in 1..(i - 1) :
                      returned[s][j].sent => returned[s][j].kind = "ok" )
              => /\ writes[s][returned[s][i].req] = 1
                 /\ returned[s][i].kind # "writeErr" => returned[s][i].sent
                 /\ returned[s][i].kind = "ok" =>
                       /\ returned[s][i].msg.type = "response"
                       /\ returned[s][i].msg.req = returned[s][i].req

\* Next failed on an error response, and the Pause called after it returned
\* the response to its own request.
C22_Witness ==
    \E s \in SessionRefs :
        /\ Len(returned[s]) = 2
        /\ ops[s][1].op = "Next" /\ ops[s][2].op = "Pause"
        /\ returned[s][1].kind = "ok"
        /\ returned[s][1].msg = ErrorResponseMsg(1)
        /\ OperationError(s, 1).text = "unexpected response type"
        /\ returned[s][2].kind = "ok"
        /\ returned[s][2].sent
        /\ returned[s][2].msg = ResponseMsg(2)
        /\ OperationError(s, 2).text = ""

\* The requests of session s the transport has been handed, as the backend
\* sees them.
Observed(s) == [k \in 1..Len(conn[s]) |-> ops[s][conn[s][k]].request]

\* C25: of typed operations issued one after the other on a session, each
\* hands the session exactly one request; the requests reach the transport
\* in issue order, none twice, every Call that got past a successful write
\* having its request there; and each request carries the command name of
\* its operation and the thread id its caller supplied.
C25_OneRequestPerOperationInOrder ==
    \A s \in SessionRefs :
        /\ Len(ops[s]) = reqSeq[s]
        /\ \A k \in 1..Len(conn[s]) :
              /\ conn[s][k] \in 1..Len(ops[s])
              /\ writes[s][conn[s][k]] = 1
              /\ \A l \in 1..(k - 1) : conn[s][l] < conn[s][k]
        /\ \A i \in Results(s) :
              returned[s][i].kind # "writeErr" =>
                  \E k \in 1..Len(conn[s]) : conn[s][k] = returned[s][i].req
        /\ \A k \in 1..Len(conn[s]) :
              LET o == ops[s][conn[s][k]]
              IN /\ Observed(s)[k].threadId = o.threadID
                 /\ Observed(s)[k].command =
                       ( CASE o.op = "Continue" -> "continue"
                           [] o.op = "Next" -> "next"
                           [] o.op = "StepIn" -> "stepIn"
                           [] o.op = "StepOut" -> "stepOut"
                           [] o.op = "Pause" -> "pause" )

\* Continue for thread 1 and then StepIn for thread 2 have returned, and the
\* backend has seen a continue request and then a stepIn request.
C25_Witness ==
    \E s \in SessionRefs :
        /\ Len(returned[s]) = 2
        /\ \A i \in 1..2 : returned[s][i].kind = "ok"
        /\ Observed(s) = << [command |-> "continue", threadId |-> 1],
                            [command |-> "stepIn", threadId |-> 2] >>

\* Everything that belongs to session s: the fields of the Session, its
\* actor's mailbox and calls, its connection and backend, its lifecycle.
SessionState(s) ==
    <<mailbox[s], call[s], reqSeq[s], conn[s], writes[s], answered[s],
      unsolicited[s], stream[s], wire[s], rl[s], responses[s], events[s],
      errors[s], returned[s], quit[s], connCloses[s], cleanups[s],
      stopCall[s]>>

\* C23: sessions share no state. Every step of a Call, of a readLoop or of
\* a backend changes the channels, the transport and the lifecycle of one
\* session at most; and whatever the Calls on the other session do (block
\* forever after an end of stream, fail on a write or a decode error), a Call
\* on a session whose backend's output has not ended returns.
C23_SessionsIndependent ==
    /\ [][\E s \in SessionRefs : \A t \in SessionRefs \ {s} :
              SessionState(t)' = SessionState(t)]_vars
    /\ \A t \in TwoSessions :
          (call[t][Driver(t)].pc # "idle")
              ~> (call[t][Driver(t)].pc = "idle" \/ stream[t] # "open")

\* The first Call on session 1 is blocked for good (its backend's output has
\* ended with nothing for it), and two Calls on session 2 have returned the
\* responses to their requests.
C23_Witness ==
    /\ call[1][Driver(1)].pc = "wait"
    /\ call[1][Driver(1)].req = 1
    /\ stream[1] = "eof" /\ rl[1].pc = "done" /\ responses[1] = <<>>
    /\ Len(returned[2]) = 2
    /\ \A i \in 1..2 : /\ returned[2][i].kind = "ok"
                       /\ returned[2][i].msg = ResponseMsg(i)

\* C24 (as claimed): with create_session requests running concurrently,
\* every creation that reported success leaves its session in the mapping
\* under its session_id, so that no successful registration is lost or
\* overwritten and every backend session whose creation was reported is held
\* by the mapping; and the concurrent requests do not bring the server down.
C24_ConcurrentCreationsAllHeld ==
    /\ ~panicked
    /\ \A i \in 1..Len(toolResults) :
          toolResults[i].ok =>
              /\ toolResults[i].id \in DOMAIN sessions
              /\ sessions[toolResults[i].id] = toolResults[i].ref

\* C26: after Stop has closed quit, the read loop terminates wherever it
\* was: in the transport read, or at the send of a response, an event or
\* an error on a channel that is full and that no Call drains.
C26_ReadLoopTerminatesAfterStop ==
    \A s \in Running : (quit[s] = "closed") ~> (rl[s].pc = "done")

\* Stop has closed quit and the read loop has returned; it was holding the
\* second response, with the first on the full responses channel and both
\* Calls cancelled, and dropped it.
C26_Witness ==
    \E s \in SessionRefs :
        /\ quit[s] = "closed"
        /\ rl[s].pc = "done"
        /\ rl[s].msg = NoMsg
        /\ Len(responses[s]) = ChanCap
        /\ Len(returned[s]) = 2
        /\ \A i \in 1..2 : returned[s][i].kind = "cancel"
        /\ answered[s] = 2
        /\ wire[s] = <<>>

\* C27: with the response to a cancelled Call's request on the responses
\* channel, a later Call that waits on the session can take it and return it
\* as its own result.
C27_StaleResponseCanBeReturned ==
    \A s \in SessionRefs : \A c \in Callers :
        ( /\ call[s][c].pc = "wait"
          /\ responses[s] # <<>>
          /\ \E i \in Results(s) :
                /\ returned[s][i].kind = "cancel"
                /\ returned[s][i].sent
                /\ returned[s][i].req = Head(responses[s]).req
                /\ returned[s][i].req < call[s][c].req )
        => ENABLED ( /\ RecvResponse(s, c)
                     /\ Last(returned'[s]).kind = "ok"
                     /\ Last(returned'[s]).req = call[s][c].req
                     /\ Last(returned'[s]).msg = Head(responses[s]) )

\* The first Call was cancelled while it waited, the backend answered its
\* request afterwards, and the second Call returned that response.
C27_Witness ==
    \E s \in SessionRefs :
        /\ Len(returned[s]) = 2
        /\ returned[s][1].kind = "cancel"
        /\ returned[s][1].req = 1
        /\ returned[s][1].sent
        /\ returned[s][1].ctx0 = "live"
        /\ returned[s][2].kind = "ok"
        /\ returned[s][2].req = 2
        /\ returned[s][2].msg = ResponseMsg(1)

\* A step of Receive's select that ends the Call of caller c on session s.
Returns(s, c) == Receive_Select(s, c) /\ call'[s][c].pc # "wait"

\* C28: a Call that waits with no response and no error on the channels and
\* a context that is not done cannot return, whatever events (terminated and
\* exited events included) it has absorbed or finds on the events channel;
\* an event that is there is absorbed and leaves it waiting. With the
\* backend silent after the event, only the cancellation of the context
\* changes that.
C28_TerminatedEventLeavesCallWaiting ==
    \A s \in SessionRefs : \A c \in Callers :
        ( /\ call[s][c].pc = "wait"
          /\ responses[s] = <<>>
          /\ errors[s] = <<>>
          /\ ActorCtx # "done" )
        => /\ ~ENABLED Returns(s, c)
           /\ events[s] # <<>> =>
                 ENABLED ( /\ RecvEvent(s, c)
                           /\ call'[s][c].pc = "wait"
                           /\ returned'[s] = returned[s] )

\* A Call has absorbed an event, the backend has sent nothing else (no
\* response, no decode error), and the Call is still waiting, its context
\* not cancelled.
C28_Witness ==
    \E s \in SessionRefs : \E c \in Callers :
        /\ call[s][c].pc = "wait"
        /\ call[s][c].sent
        /\ call[s][c].absorbed = 1
        /\ ActorCtx = "live"
        /\ answered[s] = 0
        /\ stream[s] = "open"
        /\ wire[s] = <<>>
        /\ rl[s] = ReadLoopStart
        /\ responses[s] = <<>> /\ events[s] = <<>> /\ errors[s] = <<>>
        /\ returned[s] = <<>>

\* C29: on end-of-stream the read loop terminates and pushes nothing onto
\* the errors channel, so no Call fails with a read error; a Call that waits
\* then, with no response left on the channel (events absorbed or not),
\* cannot return until its context is done.
C29_EOFTerminatesSilently ==
    \A s \in SessionRefs :
        (rl[s].pc = "done" /\ rl[s].msg = EOFMsg) =>
            /\ ErrorsPushed(s) = 0
            /\ wire[s] = <<>>
            /\ \A c \in Callers :
                  ( /\ call[s][c].pc = "wait"
                    /\ responses[s] = <<>>
                    /\ ActorCtx # "done" ) => ~ENABLED Returns(s, c)

\* The backend's output ended while a Call waited for the response to its
\* request; the read loop has terminated, the Call was not failed, and it
\* returned only when its context was cancelled.
C29_Witness ==
    \E s \in SessionRefs :
        /\ rl[s].pc = "done"
        /\ rl[s].msg = EOFMsg
        /\ answered[s] = 0
        /\ errors[s] = <<>>
        /\ Len(returned[s]) = 1
        /\ returned[s][1].kind = "cancel"
        /\ returned[s][1].sent
        /\ returned[s][1].ctx0 = "live"

\* C30 (as claimed): once the read loop has terminated on a decode error, no
\* Call on the session that comes after the one in flight at the error
\* returns a response.
C30_NoResponseAfterDecodeError ==
    \A s \in SessionRefs : \A i \in Results(s) :
        ( /\ rl[s].pc = "done"
          /\ rl[s].msg = GarbageMsg
          /\ rl[s].during # 0
          /\ returned[s][i].req > rl[s].during )
        => returned[s][i].kind # "ok"

\* C30 (amended): once the read loop has pushed a decode error it has
\* terminated: nothing the backend sent or sends is forwarded any more. A
\* later Call can return a response only while one that was forwarded before
\* the error is still on the responses channel (at most its capacity); with
\* the channel empty no Call returns a response.
C30_NoResponseOnceDrained ==
    \A s \in SessionRefs :
        ErrorsPushed(s) >= 1 =>
            /\ rl[s].pc = "done"
            /\ ~ENABLED readLoop_Read(s)
            /\ ~ENABLED readLoop_Forward(s)
            /\ Len(responses[s]) <= ChanCap
            /\ responses[s] = <<>> =>
                  \A c \in Callers :
                      ~ENABLED ( /\ Returns(s, c)
                                 /\ Last(returned'[s]).kind = "ok" )

\* The read loop has terminated on a decode error, the Call in flight
\* returned the error, and the next Call, its request written, found nothing
\* on the channels and ended with its cancellation.
C30_Witness ==
    \E s \in SessionRefs :
        /\ rl[s].pc = "done"
        /\ rl[s].msg = GarbageMsg
        /\ rl[s].during = 1
        /\ Len(returned[s]) = 2
        /\ returned[s][1].kind = "err"
        /\ returned[s][2].kind = "cancel"
        /\ returned[s][2].sent
        /\ responses[s] = <<>>

\* C31: when the backend executable cannot be located (exec.LookPath fails),
\* the launch fails after that single attempt: the failure is not retried,
\* so launchDelveExternal is never asleep before, or in, a further attempt
\* with "dlv was not found" as the error of the attempt before.
C31_LocateFailureNotRetried ==
    launchResult.err = "noDlv" => launchPc = "returned"

\* The messages of one type the backend has sent and readLoop has not yet
\* decoded, in the order sent.
Undecoded(s, type) == SelectSeq(wire[s], LAMBDA m : m.type = type)

\* The message readLoop holds while it is blocked at the send pc.
Held(s, pc) == IF rl[s].pc = pc THEN <<rl[s].msg>> ELSE <<>>

\* The responses Calls on s have returned, in the order returned.
RECURSIVE ResponsesTaken(_)
ResponsesTaken(log) ==
    IF log = <<>> THEN <<>>
    ELSE IF log[1].kind = "ok" THEN <<log[1].msg>> \o ResponsesTaken(Tail(log))
    ELSE ResponsesTaken(Tail(log))

\* The number of events the Calls on s have taken off the events channel.
RECURSIVE EventsAbsorbed(_)
EventsAbsorbed(log) ==
    IF log = <<>> THEN 0 ELSE log[1].absorbed + EventsAbsorbed(Tail(log))
EventsTaken(s) ==
    EventsAbsorbed(returned[s]) + call[s]["c1"].absorbed
                                + call[s]["c2"].absorbed

\* C32: the read loop buffers at most one response, one event and one error
\* (the channel capacities); with a channel full and no Call taking from it,
\* the loop is blocked at its next push and decodes nothing further. No
\* response and no event is dropped, and each channel hands its messages
\* over in the order the backend sent them: the responses Calls have
\* returned, then the one on the channel, the one the loop holds and those
\* not yet decoded, are the responses the backend sent, in that order; and
\* the events on the channel, held and not yet decoded are the events the
\* backend sent after those the Calls took, in that order.
C32_ReadLoopBuffersInOrder ==
    \A s \in Running :
        /\ Len(responses[s]) <= ChanCap
        /\ Len(events[s]) <= ChanCap
        /\ Len(errors[s]) <= ChanCap
        /\ ( /\ rl[s].pc \in {"pushResp", "pushEvent", "pushErr"}
             /\ ~CanForward(s, rl[s].pc) )
           => /\ ~ENABLED readLoop_Read(s)
              /\ ~ENABLED readLoop_Forward(s)
        /\ ResponsesTaken(returned[s]) \o responses[s] \o Held(s, "pushResp")
              \o Undecoded(s, "response")
           = [i \in 1..answered[s] |-> ResponseMsg(conn[s][i])]
        /\ events[s] \o Held(s, "pushEvent") \o Undecoded(s, "event")
           = [i \in 1..(unsolicited[s] - EventsTaken(s)) |->
                 SeqEvent(EventsTaken(s) + i)]

\* With no Call in flight, two Calls ended by the shutdown of the actor
\* system before their responses came:
\* the first response and the first event are buffered, the loop is blocked
\* at the push of the second event, and the second response and the third
\* event wait undecoded behind it.
C32_Witness ==
    \E s \in Running :
        /\ InReceive(s) = {}
        /\ mailbox[s] = <<>>
        /\ Len(returned[s]) = 2
        /\ responses[s] = <<ResponseMsg(1)>>
        /\ events[s] = <<SeqEvent(1)>>
        /\ rl[s].pc = "pushEvent"
        /\ rl[s].msg = SeqEvent(2)
        /\ wire[s] = <<ResponseMsg(2), SeqEvent(3)>>

\* The messages on the channels of s and in the hands of its read loop.
Forwarding(s) ==
    {responses[s][i] : i \in 1..Len(responses[s])}
        \cup {events[s][i] : i \in 1..Len(events[s])}
        \cup {errors[s][i] : i \in 1..Len(errors[s])}
        \cup {rl[s].msg}

\* C33: a decoded message that is neither a response nor an event is put on
\* no channel: the step of the read loop that decodes it leaves the three
\* channels as they were and the loop at its next read, holding nothing, and
\* from there it decodes whatever follows on the connection.
C33_OtherMessageDropped ==
    /\ [](\A s \in Running :
            /\ OtherMsg \notin Forwarding(s)
            /\ (rl[s].pc = "read" /\ wire[s] # <<>>) => ENABLED readLoop_Read(s))
    /\ [][\A s \in Running :
            ( /\ rl[s].pc = "read"
              /\ wire[s] # <<>>
              /\ Head(wire[s]) = OtherMsg
              /\ wire'[s] = Tail(wire[s]) )
            => /\ responses' = responses
               /\ events' = events
               /\ errors' = errors
               /\ rl'[s] = [rl[s] EXCEPT !.pc = "read", !.msg = NoMsg]]_vars

\* The backend sent a message that is neither and then the response to the
\* request of the Call that waits: the message is gone, on no channel and
\* absorbed by no Call, and the loop is about to decode the response.
C33_Witness ==
    \E s \in Running :
        /\ unsolicited[s] = 1
        /\ wire[s] = <<ResponseMsg(1)>>
        /\ rl[s] = ReadLoopStart
        /\ responses[s] = <<>>
        /\ events[s] = <<>>
        /\ errors[s] = <<>>
        /\ returned[s] = <<>>
        /\ call[s][Driver(s)].pc = "wait"
        /\ call[s][Driver(s)].absorbed = 0

\* C34: cancellation only ends the wait. Receive writes the request before
\* it looks at its context: a Call at its write cannot return on its
\* context, and the write goes ahead with the context done; so every Call
\* that returned anything but a write error, the cancellation error
\* included, had written its request to the connection first.
C34_RequestWrittenBeforeContext ==
    \A s \in Running :
        /\ \A c \in Callers : call[s][c].pc = "write" =>
              /\ ~ENABLED CtxDone(s, c)
              /\ ENABLED Receive_Write(s, c, TRUE)
        /\ \A i \in Results(s) :
              returned[s][i].kind # "writeErr" =>
                  /\ returned[s][i].sent
                  /\ \E j \in 1..Len(conn[s]) : conn[s][j] = returned[s][i].req

\* A request was in the mailbox when the actor system was shut down, and the
\* actor handed it to Receive with its context done; the request reached the
\* backend all the same, and the Call then returned the cancellation error.
C34_Witness ==
    \E s \in Running :
        /\ Len(returned[s]) = 1
        /\ returned[s][1].ctx0 = "done"
        /\ returned[s][1].kind = "cancel"
        /\ returned[s][1].sent
        /\ conn[s] = <<1>>

\* The place of the response to request r among the responses the backend
\* sent on s: the backend answers the requests in the order written.
AnswerIndex(s, r) == CHOOSE j \in 1..Len(conn[s]) : conn[s][j] = r

\* C35: if the backend sends an event before a response, the Call that
\* returns that response has absorbed the event first: once a response has
\* been returned, no event the backend sent ahead of it is on the events
\* channel, left for a later Call.
C35_EarlierEventsAbsorbed ==
    \A s \in Running : \A i \in Results(s) :
        returned[s][i].kind = "ok" =>
            \A k \in 1..Len(events[s]) :
                events[s][k].req >= AnswerIndex(s, returned[s][i].msg.req)

\* C36: the get_variables tool reports a failure when retrieving the
\* variables of any scope fails: no call that found its session and its
\* scopes, and for which GetVariableList failed on one of them, returns a
\* result that is not an error.
C36_VariablesErrorReported ==
    \A i \in 1..Len(toolResults) :
        ( /\ toolResults[i].id \in DOMAIN sessions
          /\ toolResults[i].scopesOk
          /\ \E k \in 1..Len(toolResults[i].scopes) :
                ~toolResults[i].scopes[k].listOk )
        => toolResults[i].result.IsError

\* C37: create_session with a session_id that is in the sessions map returns
\* the 'already exists' error in the step that looks the id up, sends no
\* command to the factory, starts no session and leaves the map as it was; a
\* call whose factory command failed returns an error and stores nothing.
\* The handler goes on to the factory only with an id that is not in the
\* map, and what is in the map was stored by a call that reported success.
C37_NoStoreOnExistingOrFailed ==
    /\ [](\A id \in DOMAIN sessions :
            \E i \in 1..Len(toolResults) :
                /\ toolResults[i].id = id
                /\ toolResults[i].ok
                /\ toolResults[i].ref = sessions[id])
    /\ [][/\ \A c \in Callers :
               (tool[c].pc = "idle" /\ tool'[c].pc = "await") =>
                   tool'[c].id \notin DOMAIN sessions
          /\ Len(toolResults') = Len(toolResults) + 1 =>
               LET r == Last(toolResults')
               IN /\ ~r.ok => sessions' = sessions
                  /\ (r.id \in DOMAIN sessions /\ tool' = tool) =>
                        /\ ~r.ok
                        /\ r.text = "already exists"
                        /\ UNCHANGED <<sessVars, factVars>>
                  /\ r.text = "Failed to create session" =>
                        (r.id \in DOMAIN sessions' <=> r.id \in DOMAIN sessions)
         ]_vars

\* Three calls have returned: "a" was created; a second call with "a" got
\* 'already exists' and sent the factory nothing; the creation of "b"
\* failed in the factory and "b" is not in the map.
C37_Witness ==
    /\ Len(toolResults) = 3
    /\ \E i, j, k \in 1..3 :
          /\ toolResults[i].id = "a" /\ toolResults[i].ok
          /\ toolResults[j].id = "a" /\ toolResults[j].text = "already exists"
          /\ toolResults[k].id = "b"
          /\ toolResults[k].text = "Failed to create session"
    /\ DOMAIN sessions = {"a"}
    /\ cmdSeq = 2
    /\ ~panicked

\* C38: a factory built with NewDebugger() has an actor system when it
\* handles a creation command, so that the new session is registered and
\* its reference returned: every session NewSession has created is either
\* about to be registered, the process running, or is registered with the
\* receptionist and was returned to the caller of the command.
C38_ServiceFactoryRegisters ==
    \A n \in started :
        \/ /\ ~panicked
           /\ \E c \in Callers : fcall[c].n = n /\ fcall[c].pc = "register"
        \/ \E i \in 1..Len(fresp) :
              /\ fresp[i].n = n
              /\ fresp[i].ok
              /\ fresp[i].resp = CreateSessionResp(n)
              /\ FindInReceptionist(receptionist, fresp[i].id) = <<n>>

\* C39: a factory command other than StartDebuggerCmd or CreateSessionCmd,
\* StopDebuggerCmd included, returns the 'unknown command type' error: every
\* result of such a command is that error, and the step that returns it
\* creates no session, registers nothing and leaves the identifier counter
\* and every existing session as they were.
C39_UnknownCommandChangesNothing ==
    /\ [](\A i \in 1..Len(fresp) :
            fresp[i].cmd \notin {"StartDebuggerCmd", "CreateSessionCmd"} =>
                /\ ~fresp[i].ok
                /\ fresp[i].resp = ErrorResp("unknown command type")
                /\ fresp[i].n \notin started)
    /\ [][( /\ Len(fresp') = Len(fresp) + 1
            /\ Last(fresp').cmd \notin {"StartDebuggerCmd", "CreateSessionCmd"} )
          => /\ started' = started
             /\ nextSessionID' = nextSessionID
             /\ receptionist' = receptionist
             /\ UNCHANGED sessVars]_vars

\* A session was created, and a StopDebuggerCmd sent after it was answered
\* with the error; the session is still registered and the counter is 1.
C39_Witness ==
    /\ Len(fresp) = 2
    /\ fresp[1].ok
    /\ fresp[2].cmd = "StopDebuggerCmd"
    /\ fresp[2].resp = ErrorResp("unknown command type")
    /\ started = {1}
    /\ nextSessionID = 1
    /\ FindInReceptionist(receptionist, SessionID(1)) = <<1>>

====
